---- MODULE Spec2Model ----
(***************************************************************************)
(* LearnFlow backend: the telemetry event log (TelemetryStore), the        *)
(* dashboard cache (DashboardCache), the dashboard request handlers that   *)
(* read through the cache, and the progress engine (ProgressStore,         *)
(* ProgressTracker).                                                       *)
(*                                                                         *)
(* The backend is one Node.js process.  A step of the model is one         *)
(* synchronous stretch of code between two awaits.  A stretch that follows *)
(* an await on an already settled promise is a microtask: it runs before   *)
(* the process takes the next request or the next I/O completion, and      *)
(* microtasks awaiting ensureInitialized run in the order of their calls.  *)
(* New calls and I/O completions are taken only when no microtask is       *)
(* pending.  The directory of the telemetry file exists: the mkdir calls   *)
(* (recursive) succeed.                                                    *)
(*                                                                         *)
(* Spec          callers record events and request dashboards              *)
(* SpecLog       callers record events and purge old ones                  *)
(* SpecQuery     callers record events and query the index                 *)
(* SpecProgress  the progress store and its replay                         *)
(* SpecCallers   record, query, purgeOld and isWritable on a new store     *)
(* SpecKeys      the dashboard handlers and their cache keys               *)
(* SpecCache     the DashboardCache called directly                        *)
(* SpecMastery   addEvent on stores holding a run of Core successes        *)
(* SpecInsights  generateInsights on stores built from scripts             *)
(* SpecTrend     recalculateConfidenceTrend on the same stores             *)
(* SpecTracker   recordInteraction and batchRecordInteractions             *)
(* SpecSuggest   suggestDepthProgression and generateTeachingPlan          *)
(* SpecDepths    aggregateTeacherMetrics                                   *)
(* SpecCompliancecomputeComplianceScore                                    *)
(***************************************************************************)
EXTENDS Integers, Sequences, FiniteSets, TLC

VARIABLES
    now,          \* Date.now(), in milliseconds
    initialized,  \* TelemetryStore.initialized and the progress of the load
    events,       \* TelemetryStore.events, the in-memory index
    file,         \* lines of the telemetry file
    tmp,          \* lines of the "<telemetryFile>.tmp" file
    writeChain,   \* the appends chained on TelemetryStore.writeChain
    waiters,      \* continuations awaiting ensureInitialized, in call order
    recs,         \* the record() calls made so far
    purges,       \* the purgeOld() calls made so far
    cache,        \* DashboardCache.store
    dash,         \* the dashboard requests made so far
    ioFailed,     \* history: some file operation has failed
    cacheCalls,   \* history: the calls made on the DashboardCache by its direct callers
    ret,          \* what the step just taken returned to its caller
    updates,      \* the updateTopicProgress calls made so far
    students,     \* ProgressStore.students
    pEvents       \* ProgressStore.events

storeVars == <<now, initialized, events, file, tmp, writeChain, waiters, recs,
               purges, cache, dash, ioFailed, cacheCalls>>
progressVars == <<students, pEvents, updates>>
vars == <<storeVars, ret, progressVars>>

-----------------------------------------------------------------------------
(* Bounds of the model *)

MaxRecords == 2        \* record() calls
MaxPurges == 2         \* purgeOld() calls
MaxDash == 2           \* dashboard requests
MaxNow == 2            \* days the clock may advance
RetentionDays == 1     \* opts.retentionDays given to the constructor

-----------------------------------------------------------------------------
(* Dates *)

DayMs == 24 * 60 * 60 * 1000

NaN == -1

\* The timestamp strings the callers send; "not-a-date" does not parse.
DayStamps == {"1970-01-01", "1970-01-02", "1970-01-03", "1970-01-04"}
Timestamps == DayStamps \cup {"not-a-date"}

\* new Date(s).getTime()
DateGetTime(s) ==
    CASE s = "1970-01-01" -> 0
      [] s = "1970-01-02" -> DayMs
      [] s = "1970-01-03" -> 2 * DayMs
      [] s = "1970-01-04" -> 3 * DayMs
      [] OTHER -> NaN

NumberIsNaN(x) == x = NaN

withinRetentionNoCutoff(ms, retentionDays, clock) == ms >= 0

\* withinRetention(d, retentionDays): cutoff = now - retentionDays days
withinRetention(ms, retentionDays, clock) ==
    ms >= clock - retentionDays * DayMs

-----------------------------------------------------------------------------
(* Telemetry events and their lines in the file *)

Kinds == {"interaction", "assignment"}

\* JSON.stringify(event): one line of the file
JsonStringify(e) == <<"{", e.id, e.kind, e.timestamp, "}">>

\* A line JSON.parse accepts
JsonParses(line) == Len(line) = 5 /\ line[1] = "{" /\ line[5] = "}"

\* JSON.parse(line), for a line that parses
JsonParse(line) == [id |-> line[2], kind |-> line[3], timestamp |-> line[4]]

\* events.map(JSON.stringify).join("\n") + "\n", as lines
FileContent(evts) == [i \in 1..Len(evts) |-> JsonStringify(evts[i])]

Ids(evts) == {evts[i].id : i \in 1..Len(evts)}

-----------------------------------------------------------------------------
(* DashboardCache *)

\* Strings are sequences of tokens; key.includes(pattern)
Includes(key, pattern) ==
    \E i \in 0..(Len(key) - Len(pattern)) :
        \A j \in 1..Len(pattern) : key[i + j] = pattern[j]

DashboardPrefix == <<"dashboard:">>

Periods == {"week"}
Endpoints == {"teacher", "institution"}

\* `dashboard:teacher:${period}`, `dashboard:institution:${period}`
CacheKey(endpoint, period) == <<"dashboard:", endpoint, ":", period>>

TeacherTtlMs == 60000
InstitutionTtlMs == 120000

TtlOf(endpoint) == IF endpoint = "teacher" THEN TeacherTtlMs ELSE InstitutionTtlMs

Max(a, b) == IF a >= b THEN a ELSE b
Min(a, b) == IF a <= b THEN a ELSE b

Null == [null |-> TRUE]

Without(store, keys) == [k \in (DOMAIN store) \ keys |-> store[k]]

\* An entry that counts as expired from its deadline on
CachedValueUntilDeadline(store, key, clock) ==
    IF key \notin DOMAIN store THEN Null
    ELSE IF clock >= store[key].expiresAt THEN Null
    ELSE store[key].value

\* getCachedMetrics: the value returned
CachedValue(store, key, clock) ==
    IF key \notin DOMAIN store THEN Null
    ELSE IF clock > store[key].expiresAt THEN Null
    ELSE store[key].value

\* getCachedMetrics: the store it leaves (an expired entry is deleted)
StoreAfterGet(store, key, clock) ==
    IF key \in DOMAIN store /\ clock > store[key].expiresAt
    THEN Without(store, {key})
    ELSE store

\* setCachedMetrics
SetCachedMetrics(store, key, metrics, ttlMs, clock) ==
    [k \in (DOMAIN store) \cup {key} |->
        IF k = key THEN [value |-> metrics, expiresAt |-> clock + Max(0, ttlMs)]
        ELSE store[k]]

InvalidateNothing(store, pattern) == store

\* invalidateCache
InvalidateCache(store, pattern) ==
    Without(store, {k \in DOMAIN store : Includes(k, pattern)})

-----------------------------------------------------------------------------
(* TelemetryStore: initialization *)

NoRet == [op |-> "none"]

\* What the file may hold when the process starts: nothing, or an event of
\* an earlier run followed by a truncated line.
Preloaded == [id |-> 101, kind |-> "interaction", timestamp |-> "1970-01-02"]
TruncatedLine == <<"{", 102, "assignment">>
InitialFiles == {<<>>, <<JsonStringify(Preloaded), TruncatedLine>>}

\* The lines kept by the load loop of ensureInitialized
LineKept(line, clock) ==
    /\ JsonParses(line)
    /\ ~NumberIsNaN(DateGetTime(JsonParse(line).timestamp))
    /\ withinRetention(DateGetTime(JsonParse(line).timestamp), RetentionDays, clock)

RECURSIVE ParseLines(_, _)
ParseLines(lines, clock) ==
    IF lines = <<>> THEN <<>>
    ELSE IF LineKept(Head(lines), clock)
         THEN <<JsonParse(Head(lines))>> \o ParseLines(Tail(lines), clock)
         ELSE ParseLines(Tail(lines), clock)

\* The first call of ensureInitialized starts the load; later calls share it.
EnsureInitialized == IF initialized = "null" THEN "loading" ELSE initialized

FulfilledOnly(task) == task.status = "done"

IssuedOnly(task) == task.status # "waiting"

\* The promise of the append has settled; .catch turns a failure into a
\* fulfilled promise
Settled(task) == task.status \in {"done", "failed"}

StartsUnchained(k) == TRUE

\* The .then callback of task k runs once the promise it was chained on has
\* settled (.catch turns a failed append into a fulfilled promise)
StartsWhenChained(k) == IF k = 1 THEN TRUE ELSE Settled(writeChain[k - 1])

\* A microtask is ready to run
MicrotaskPending ==
    \/ initialized = "done" /\ waiters # <<>>
    \/ \E k \in 1..Len(writeChain) :
          writeChain[k].status = "waiting" /\ StartsWhenChained(k)
    \/ \E i \in 1..Len(recs) :
          recs[i].pc = "chain" /\ Settled(writeChain[recs[i].task])

\* The process is idle: it takes a new request or an I/O completion
TakesMacrotask == ~MicrotaskPending

\* A caller that resumes without the load having finished
AtHeadUnready(w) == waiters # <<>> /\ Head(waiters) = w

\* The continuation `w` is the next one to resume after ensureInitialized
AtHead(w) == initialized = "done" /\ waiters # <<>> /\ Head(waiters) = w

\* readFile completes: parse, this.events = parsed; the rewrite follows when
\* lines were dropped.  A failed read (ENOENT included) leaves an empty index.
LoadFile ==
    /\ initialized = "loading"
    /\ TakesMacrotask
    /\ \E ok \in BOOLEAN :
        IF ok
        THEN LET parsed == ParseLines(file, now) IN
             /\ events' = parsed
             /\ initialized' = IF Len(file) # Len(parsed) THEN "writeTmp" ELSE "done"
             /\ UNCHANGED ioFailed
        ELSE /\ events' = <<>>
             /\ initialized' = "done"
             /\ ioFailed' = TRUE
    /\ ret' = NoRet
    /\ UNCHANGED <<now, file, tmp, writeChain, waiters, recs, purges, cache, dash,
                   progressVars, cacheCalls>>

\* What a failed fs.writeFile may leave of `content` in the file it opened
PartlyWritten(content) == {SubSeq(content, 1, n) : n \in 0..Len(content)}

\* rewriteFile(parsed) of the load: fs.writeFile(tmp, content) completes; a
\* failure leaves the tmp file as it was or partly written and is caught by
\* the load, which empties the index
LoadWriteTmp ==
    /\ initialized = "writeTmp"
    /\ TakesMacrotask
    /\ \E ok \in BOOLEAN :
        IF ok
        THEN /\ tmp' = FileContent(events)
             /\ initialized' = "rename"
             /\ UNCHANGED <<events, ioFailed>>
        ELSE /\ events' = <<>>
             /\ initialized' = "done"
             /\ ioFailed' = TRUE
             /\ tmp' \in {tmp} \cup PartlyWritten(FileContent(events))
    /\ ret' = NoRet
    /\ UNCHANGED <<now, file, writeChain, waiters, recs, purges, cache, dash,
                   progressVars, cacheCalls>>

\* rewriteFile(parsed) of the load: fs.rename(tmp, telemetryFile) completes;
\* a failure is caught by the load, which empties the index
LoadRename ==
    /\ initialized = "rename"
    /\ TakesMacrotask
    /\ \E ok \in BOOLEAN :
        IF ok
        THEN /\ file' = tmp
             /\ UNCHANGED <<events, ioFailed>>
        ELSE /\ events' = <<>>
             /\ ioFailed' = TRUE
             /\ UNCHANGED file
    /\ initialized' = "done"
    /\ ret' = NoRet
    /\ UNCHANGED <<now, tmp, writeChain, waiters, recs, purges, cache, dash,
                   progressVars, cacheCalls>>

-----------------------------------------------------------------------------
(* TelemetryStore.record *)

RecordWaiter(i) == [op |-> "record", id |-> i]

\* record(event) is called: await this.ensureInitialized()
RecordCall(kind, timestamp) ==
    /\ TakesMacrotask
    /\ Len(recs) < MaxRecords
    /\ recs' = Append(recs, [event |-> [id |-> Len(recs) + 1, kind |-> kind,
                                        timestamp |-> timestamp],
                             pc |-> "init", accepted |-> FALSE, task |-> 0])
    /\ waiters' = Append(waiters, RecordWaiter(Len(recs) + 1))
    /\ initialized' = EnsureInitialized
    /\ ret' = NoRet
    /\ UNCHANGED <<now, events, file, tmp, writeChain, purges, cache, dash, ioFailed,
                   progressVars, cacheCalls>>

\* The event passes the two checks of record
Accepts(event, clock) ==
    /\ ~NumberIsNaN(DateGetTime(event.timestamp))
    /\ withinRetention(DateGetTime(event.timestamp), RetentionDays, clock)

\* record resumes: an event that fails a check is dropped and the call
\* returns
RecordDrop(i) ==
    /\ recs[i].pc = "init"
    /\ AtHead(RecordWaiter(i))
    /\ ~Accepts(recs[i].event, now)
    /\ recs' = [recs EXCEPT ![i].pc = "resolved"]
    /\ waiters' = Tail(waiters)
    /\ ret' = [op |-> "record", id |-> i]
    /\ UNCHANGED <<now, initialized, events, file, tmp, writeChain, purges, cache, dash,
                   ioFailed, progressVars, cacheCalls>>

\* record resumes: push, invalidate, chain the append, and await the chain
RecordPush(i) ==
    /\ recs[i].pc = "init"
    /\ AtHead(RecordWaiter(i))
    /\ Accepts(recs[i].event, now)
    /\ events' = Append(events, recs[i].event)
    /\ cache' = InvalidateCache(cache, DashboardPrefix)
    /\ writeChain' = Append(writeChain, [event |-> recs[i].event, status |-> "waiting"])
    /\ recs' = [recs EXCEPT ![i].pc = "chain", ![i].accepted = TRUE,
                            ![i].task = Len(writeChain) + 1]
    /\ waiters' = Tail(waiters)
    /\ ret' = NoRet
    /\ UNCHANGED <<now, initialized, file, tmp, purges, dash, ioFailed, progressVars, cacheCalls>>

\* The chained callback runs: fs.appendFile is issued
AppendStart(k) ==
    /\ writeChain[k].status = "waiting"
    /\ StartsWhenChained(k)
    /\ writeChain' = [writeChain EXCEPT ![k].status = "running"]
    /\ ret' = NoRet
    /\ UNCHANGED <<now, initialized, events, file, tmp, waiters, recs, purges, cache,
                   dash, ioFailed, progressVars, cacheCalls>>

\* fs.appendFile completes: the line is in the file, or the failure is logged
AppendFinish(k) ==
    /\ writeChain[k].status = "running"
    /\ TakesMacrotask
    /\ \E ok \in BOOLEAN :
        IF ok
        THEN /\ file' = Append(file, JsonStringify(writeChain[k].event))
             /\ writeChain' = [writeChain EXCEPT ![k].status = "done"]
             /\ UNCHANGED ioFailed
        ELSE /\ writeChain' = [writeChain EXCEPT ![k].status = "failed"]
             /\ ioFailed' = TRUE
             /\ UNCHANGED file
    /\ ret' = NoRet
    /\ UNCHANGED <<now, initialized, events, tmp, waiters, recs, purges, cache, dash,
                   progressVars, cacheCalls>>

\* await this.writeChain returns: record resolves
RecordResolve(i) ==
    /\ recs[i].pc = "chain"
    /\ Settled(writeChain[recs[i].task])
    /\ recs' = [recs EXCEPT ![i].pc = "resolved"]
    /\ ret' = [op |-> "record", id |-> i]
    /\ UNCHANGED <<now, initialized, events, file, tmp, writeChain, waiters, purges,
                   cache, dash, ioFailed, progressVars, cacheCalls>>

-----------------------------------------------------------------------------
(* TelemetryStore.purgeOld *)

PurgeWaiter(p) == [op |-> "purgeOld", id |-> p]

\* this.events.filter(withinRetention)
Retained(evts, clock) ==
    SelectSeq(evts, LAMBDA e : withinRetention(DateGetTime(e.timestamp), RetentionDays, clock))

\* purgeOld() is called: await this.ensureInitialized()
PurgeCall ==
    /\ TakesMacrotask
    /\ Len(purges) < MaxPurges
    /\ purges' = Append(purges, [pc |-> "init", dropped |-> FALSE, kept |-> <<>>])
    /\ waiters' = Append(waiters, PurgeWaiter(Len(purges) + 1))
    /\ initialized' = EnsureInitialized
    /\ ret' = NoRet
    /\ UNCHANGED <<now, events, file, tmp, writeChain, recs, cache, dash, ioFailed,
                   progressVars, cacheCalls>>

\* purgeOld resumes: nothing to drop and it returns, or the index is replaced
\* and rewriteFile(kept) begins
PurgeFilter(p) ==
    /\ purges[p].pc = "init"
    /\ AtHead(PurgeWaiter(p))
    /\ waiters' = Tail(waiters)
    /\ LET kept == Retained(events, now) IN
        IF Len(kept) = Len(events)
        THEN /\ purges' = [purges EXCEPT ![p].pc = "resolved"]
             /\ ret' = [op |-> "purgeOld", id |-> p]
             /\ UNCHANGED events
        ELSE /\ events' = kept
             /\ purges' = [purges EXCEPT ![p].pc = "writeTmp", ![p].dropped = TRUE,
                                         ![p].kept = kept]
             /\ ret' = NoRet
    /\ UNCHANGED <<now, initialized, file, tmp, writeChain, recs, cache, dash, ioFailed,
                   progressVars, cacheCalls>>

\* rewriteFile(kept): fs.writeFile(tmp, content) completes; a failure leaves
\* the tmp file as it was or partly written, is logged, and purgeOld returns
PurgeWriteTmp(p) ==
    /\ purges[p].pc = "writeTmp"
    /\ TakesMacrotask
    /\ \E ok \in BOOLEAN :
        IF ok
        THEN /\ tmp' = FileContent(purges[p].kept)
             /\ purges' = [purges EXCEPT ![p].pc = "rename"]
             /\ ret' = NoRet
             /\ UNCHANGED ioFailed
        ELSE /\ purges' = [purges EXCEPT ![p].pc = "resolved"]
             /\ ret' = [op |-> "purgeOld", id |-> p]
             /\ ioFailed' = TRUE
             /\ tmp' \in {tmp} \cup PartlyWritten(FileContent(purges[p].kept))
    /\ UNCHANGED <<now, initialized, events, file, writeChain, waiters, recs, cache, dash,
                   progressVars, cacheCalls>>

\* rewriteFile(kept): fs.rename(tmp, telemetryFile) completes; a failure is
\* logged and purgeOld returns
PurgeRename(p) ==
    /\ purges[p].pc = "rename"
    /\ TakesMacrotask
    /\ \E ok \in BOOLEAN :
        IF ok
        THEN file' = tmp /\ UNCHANGED ioFailed
        ELSE ioFailed' = TRUE /\ UNCHANGED file
    /\ purges' = [purges EXCEPT ![p].pc = "resolved"]
    /\ ret' = [op |-> "purgeOld", id |-> p]
    /\ UNCHANGED <<now, initialized, events, tmp, writeChain, waiters, recs, cache, dash,
                   progressVars, cacheCalls>>

-----------------------------------------------------------------------------
(* TelemetryStore.query *)

NoKinds == [given |-> FALSE, kinds |-> {}]
OnlyKinds(ks) == [given |-> TRUE, kinds |-> ks]

InRangeExclusive(e, fromMs, toMs, opts) ==
    /\ opts.given => e.kind \in opts.kinds
    /\ DateGetTime(e.timestamp) > fromMs
    /\ DateGetTime(e.timestamp) < toMs

\* The filter callback of query
InRange(e, fromMs, toMs, opts) ==
    IF opts.given /\ e.kind \notin opts.kinds THEN FALSE
    ELSE DateGetTime(e.timestamp) >= fromMs /\ DateGetTime(e.timestamp) <= toMs

\* A filter that also waits for the append of the event
QueryResultDurable(evts, fromMs, toMs, opts) ==
    SelectSeq(evts, LAMBDA e :
        /\ InRange(e, fromMs, toMs, opts)
        /\ \A k \in 1..Len(writeChain) :
              writeChain[k].event = e => Settled(writeChain[k]))

\* this.events.filter(...)
QueryResult(evts, fromMs, toMs, opts) ==
    SelectSeq(evts, LAMBDA e : InRange(e, fromMs, toMs, opts))

QueryBounds == {0, DayMs, 2 * DayMs}
QueryOpts == {NoKinds, OnlyKinds({"interaction"})}

QueryWaiter(fromMs, toMs, opts) ==
    [op |-> "query", from |-> fromMs, to |-> toMs, opts |-> opts]

\* query(range, opts) is called: await this.ensureInitialized()
QueryCall(fromMs, toMs, opts) ==
    /\ TakesMacrotask
    /\ \A k \in 1..Len(waiters) : waiters[k].op # "query"
    /\ waiters' = Append(waiters, QueryWaiter(fromMs, toMs, opts))
    /\ initialized' = EnsureInitialized
    /\ ret' = NoRet
    /\ UNCHANGED <<now, events, file, tmp, writeChain, recs, purges, cache, dash,
                   ioFailed, progressVars, cacheCalls>>

\* query resumes: the filtered index is returned
QueryReturn ==
    /\ initialized = "done"
    /\ waiters # <<>>
    /\ Head(waiters).op = "query"
    /\ waiters' = Tail(waiters)
    /\ ret' = [op |-> "query", from |-> Head(waiters).from, to |-> Head(waiters).to,
               opts |-> Head(waiters).opts,
               result |-> QueryResult(events, Head(waiters).from, Head(waiters).to,
                                      Head(waiters).opts)]
    /\ UNCHANGED <<now, initialized, events, file, tmp, writeChain, recs, purges, cache,
                   dash, ioFailed, progressVars, cacheCalls>>

-----------------------------------------------------------------------------
(* The dashboard handlers: getTeacherDashboard, getInstitutionDashboard *)

DashWaiter(d) == [op |-> "dashboard", id |-> d]

\* The handler looks its key up: a hit is the response; after a miss it
\* starts the telemetry queries, each of which awaits ensureInitialized
DashLookup(endpoint, period) ==
    LET key == CacheKey(endpoint, period)
        cached == CachedValue(cache, key, now) IN
    /\ TakesMacrotask
    /\ Len(dash) < MaxDash
    /\ cache' = StoreAfterGet(cache, key, now)
    /\ IF cached # Null
       THEN /\ dash' = Append(dash, [endpoint |-> endpoint, period |-> period,
                                     pc |-> "resolved", basis |-> {}])
            /\ ret' = [op |-> "dashboard", cached |-> TRUE, data |-> cached]
            /\ UNCHANGED <<initialized, waiters>>
       ELSE /\ dash' = Append(dash, [endpoint |-> endpoint, period |-> period,
                                     pc |-> "query", basis |-> {}])
            /\ ret' = NoRet
            /\ initialized' = EnsureInitialized
            /\ waiters' = Append(waiters, DashWaiter(Len(dash) + 1))
    /\ UNCHANGED <<now, events, file, tmp, writeChain, recs, purges, ioFailed, progressVars,
                   cacheCalls>>

\* await Promise.all([...]): the queries for the period read the index; the
\* handler goes on to await computeQualityForRange(prevRange), whose query
\* awaits ensureInitialized in its turn
DashQuery(d) ==
    /\ dash[d].pc = "query"
    /\ AtHead(DashWaiter(d))
    /\ dash' = [dash EXCEPT ![d].pc = "history", ![d].basis = Ids(events)]
    /\ waiters' = Append(Tail(waiters), DashWaiter(d))
    /\ ret' = NoRet
    /\ UNCHANGED <<now, initialized, events, file, tmp, writeChain, recs, purges, cache,
                   ioFailed, progressVars, cacheCalls>>

\* The query of computeQualityForRange reads the index: the response rests
\* on the events both reads saw.  getInstitutionDashboard goes on to await
\* telemetryStore.isWritable(), which appends the empty string to the file;
\* getTeacherDashboard has one more await to return from.
DashHistory(d) ==
    /\ dash[d].pc = "history"
    /\ AtHead(DashWaiter(d))
    /\ dash' = [dash EXCEPT ![d].pc = IF dash[d].endpoint = "institution"
                                      THEN "probe" ELSE "set",
                            ![d].basis = dash[d].basis \cap Ids(events)]
    /\ waiters' = IF dash[d].endpoint = "institution"
                  THEN Tail(waiters)
                  ELSE Append(Tail(waiters), DashWaiter(d))
    /\ ret' = NoRet
    /\ UNCHANGED <<now, initialized, events, file, tmp, writeChain, recs, purges, cache,
                   ioFailed, progressVars, cacheCalls>>

\* getInstitutionDashboard: the appendFile of isWritable completes
DashProbe(d) ==
    /\ dash[d].pc = "probe"
    /\ TakesMacrotask
    /\ dash' = [dash EXCEPT ![d].pc = "set"]
    /\ waiters' = Append(waiters, DashWaiter(d))
    /\ ret' = NoRet
    /\ UNCHANGED <<now, initialized, events, file, tmp, writeChain, recs, purges, cache,
                   ioFailed, progressVars, cacheCalls>>

\* setCachedMetrics(cacheKey, response, ttl) and the response is sent
DashSet(d) ==
    LET response == [basis |-> dash[d].basis] IN
    /\ dash[d].pc = "set"
    /\ AtHead(DashWaiter(d))
    /\ cache' = SetCachedMetrics(cache, CacheKey(dash[d].endpoint, dash[d].period),
                                 response, TtlOf(dash[d].endpoint), now)
    /\ dash' = [dash EXCEPT ![d].pc = "resolved"]
    /\ waiters' = Tail(waiters)
    /\ ret' = [op |-> "dashboard", cached |-> FALSE, data |-> response]
    /\ UNCHANGED <<now, initialized, events, file, tmp, writeChain, recs, purges,
                   ioFailed, progressVars, cacheCalls>>

-----------------------------------------------------------------------------
(* The clock *)

Tick ==
    /\ now < (1 + MaxNow) * DayMs
    /\ now' = now + DayMs
    /\ ret' = NoRet
    /\ UNCHANGED <<initialized, events, file, tmp, writeChain, waiters, recs, purges,
                   cache, dash, ioFailed, progressVars, cacheCalls>>

-----------------------------------------------------------------------------
(* Specifications *)

RecordTimestamps == {"1970-01-01", "1970-01-03", "not-a-date"}

InitProgressIdle ==
    /\ students = <<>>
    /\ pEvents = <<>>
    /\ updates = 0

InitStore ==
    /\ now = DayMs
    /\ initialized = "null"
    /\ events = <<>>
    /\ tmp = <<>>
    /\ writeChain = <<>>
    /\ waiters = <<>>
    /\ recs = <<>>
    /\ purges = <<>>
    /\ cache = <<>>
    /\ dash = <<>>
    /\ ioFailed = FALSE
    /\ cacheCalls = <<>>
    /\ ret = NoRet

\* Spec: callers record events and request dashboards on a store whose file
\* starts empty.
Init ==
    /\ InitStore
    /\ file = <<>>
    /\ InitProgressIdle

Next ==
    \/ LoadFile
    \/ \E t \in RecordTimestamps : RecordCall("interaction", t)
    \/ \E i \in 1..Len(recs) : RecordDrop(i)
    \/ \E i \in 1..Len(recs) : RecordPush(i)
    \/ \E k \in 1..Len(writeChain) : AppendStart(k)
    \/ \E k \in 1..Len(writeChain) : AppendFinish(k)
    \/ \E i \in 1..Len(recs) : RecordResolve(i)
    \/ \E e \in Endpoints, p \in Periods : DashLookup(e, p)
    \/ \E d \in 1..Len(dash) : DashQuery(d)
    \/ \E d \in 1..Len(dash) : DashHistory(d)
    \/ \E d \in 1..Len(dash) : DashProbe(d)
    \/ \E d \in 1..Len(dash) : DashSet(d)
    \/ Tick

Spec == Init /\ [][Next]_vars

\* SpecLog: callers record events and purge old ones on a store whose file
\* may hold lines of an earlier run.
InitLog ==
    /\ InitStore
    /\ file \in InitialFiles
    /\ InitProgressIdle

NextLog ==
    \/ LoadFile
    \/ LoadWriteTmp
    \/ LoadRename
    \/ \E t \in RecordTimestamps : RecordCall("interaction", t)
    \/ \E i \in 1..Len(recs) : RecordDrop(i)
    \/ \E i \in 1..Len(recs) : RecordPush(i)
    \/ \E k \in 1..Len(writeChain) : AppendStart(k)
    \/ \E k \in 1..Len(writeChain) : AppendFinish(k)
    \/ \E i \in 1..Len(recs) : RecordResolve(i)
    \/ PurgeCall
    \/ \E p \in 1..Len(purges) : PurgeFilter(p)
    \/ \E p \in 1..Len(purges) : PurgeWriteTmp(p)
    \/ \E p \in 1..Len(purges) : PurgeRename(p)
    \/ Tick

SpecLog == InitLog /\ [][NextLog]_vars

\* SpecQuery: callers record events of several kinds and query the index.
NextQuery ==
    \/ LoadFile
    \/ \E k \in Kinds, t \in RecordTimestamps : RecordCall(k, t)
    \/ \E i \in 1..Len(recs) : RecordDrop(i)
    \/ \E i \in 1..Len(recs) : RecordPush(i)
    \/ \E k \in 1..Len(writeChain) : AppendStart(k)
    \/ \E k \in 1..Len(writeChain) : AppendFinish(k)
    \/ \E i \in 1..Len(recs) : RecordResolve(i)
    \/ \E f \in QueryBounds, t \in QueryBounds, o \in QueryOpts : QueryCall(f, t, o)
    \/ QueryReturn
    \/ Tick

SpecQuery == Init /\ [][NextQuery]_vars

\* isWritable() is called: await this.ensureInitialized()
IsWritableCall ==
    /\ TakesMacrotask
    /\ \A k \in 1..Len(waiters) : waiters[k].op # "isWritable"
    /\ waiters' = Append(waiters, [op |-> "isWritable"])
    /\ initialized' = EnsureInitialized
    /\ ret' = NoRet
    /\ UNCHANGED <<now, events, file, tmp, writeChain, recs, purges, cache, dash,
                   ioFailed, progressVars, cacheCalls>>

\* isWritable resumes: mkdir and the append of "" leave the file as it is;
\* the call returns true, or false when one of them fails
IsWritableReturn ==
    /\ initialized = "done"
    /\ waiters # <<>>
    /\ Head(waiters).op = "isWritable"
    /\ waiters' = Tail(waiters)
    /\ \E ok \in BOOLEAN : ret' = [op |-> "isWritable", result |-> ok]
    /\ UNCHANGED <<now, initialized, events, file, tmp, writeChain, recs, purges, cache,
                   dash, ioFailed, progressVars, cacheCalls>>

\* SpecCallers: record, query, purgeOld and isWritable are called on a new
\* store whose file may hold lines of an earlier run.
NextCallers ==
    \/ LoadFile
    \/ LoadWriteTmp
    \/ LoadRename
    \/ \E t \in RecordTimestamps : RecordCall("interaction", t)
    \/ \E i \in 1..Len(recs) : RecordDrop(i)
    \/ \E i \in 1..Len(recs) : RecordPush(i)
    \/ \E k \in 1..Len(writeChain) : AppendStart(k)
    \/ \E k \in 1..Len(writeChain) : AppendFinish(k)
    \/ \E i \in 1..Len(recs) : RecordResolve(i)
    \/ QueryCall(0, 2 * DayMs, NoKinds)
    \/ QueryReturn
    \/ PurgeCall
    \/ \E p \in 1..Len(purges) : PurgeFilter(p)
    \/ \E p \in 1..Len(purges) : PurgeWriteTmp(p)
    \/ \E p \in 1..Len(purges) : PurgeRename(p)
    \/ IsWritableCall
    \/ IsWritableReturn
    \/ Tick

SpecCallers == InitLog /\ [][NextCallers]_vars

-----------------------------------------------------------------------------
(* The dashboard handlers and their cache keys *)

Roles == {"teacher", "institution", "unknown"}
KeyPeriods == {"week", "month"}
TopicNames == {"Fractions"}
KeyEndpoints == {"teacher", "institution", "metrics", "topic", "system-health", "ethics"}

MetricsTtlMs == 60000
TopicTtlMs == 120000
SystemHealthTtlMs == 10000
EthicsTtlMs == 120000

\* requireRole(req, allowed) and the role checks of the handlers
AllowedRoles(endpoint) ==
    CASE endpoint = "teacher" -> {"teacher"}
      [] endpoint \in {"institution", "ethics"} -> {"institution"}
      [] OTHER -> {"teacher", "institution"}

\* The requests a caller can make: only getTopicAnalysis takes a topic name,
\* getSystemHealth takes no period
Requests ==
    {r \in [endpoint : KeyEndpoints, role : Roles, period : KeyPeriods \cup {"none"},
            topicName : TopicNames \cup {"none"}] :
        /\ (r.topicName # "none") <=> (r.endpoint = "topic")
        /\ (r.period = "none") <=> (r.endpoint = "system-health")}

\* const cacheKey = ... of each handler
CacheKeyOf(r) ==
    CASE r.endpoint = "teacher" -> <<"dashboard:", "teacher", ":", r.period>>
      [] r.endpoint = "institution" -> <<"dashboard:", "institution", ":", r.period>>
      [] r.endpoint = "metrics" -> <<"dashboard:", "metrics", ":", r.role, ":", r.period>>
      [] r.endpoint = "topic" -> <<"dashboard:", "topic", ":", r.period, ":", r.topicName>>
      [] r.endpoint = "system-health" -> <<"dashboard:", "system-health">>
      [] r.endpoint = "ethics" -> <<"dashboard:", "ethics", ":", r.period>>

\* The ttl each handler gives to setCachedMetrics
TtlOfRequest(r) ==
    CASE r.endpoint = "teacher" -> TeacherTtlMs
      [] r.endpoint = "institution" -> InstitutionTtlMs
      [] r.endpoint = "metrics" -> MetricsTtlMs
      [] r.endpoint = "topic" -> TopicTtlMs
      [] r.endpoint = "system-health" -> SystemHealthTtlMs
      [] r.endpoint = "ethics" -> EthicsTtlMs

\* A handler up to its first await: the role check (403 Forbidden), the
\* lookup of the key, the cached response after a hit
DashboardRequest(r) ==
    LET key == CacheKeyOf(r)
        cached == CachedValue(cache, key, now) IN
    /\ Len(dash) < MaxDash
    /\ IF r.role \notin AllowedRoles(r.endpoint)
       THEN /\ ret' = [op |-> "dashboard", request |-> r, status |-> 403]
            /\ UNCHANGED <<cache, dash>>
       ELSE /\ cache' = StoreAfterGet(cache, key, now)
            /\ IF cached # Null
               THEN /\ ret' = [op |-> "dashboard", request |-> r, status |-> 200,
                               cached |-> TRUE, data |-> cached]
                    /\ dash' = Append(dash, [request |-> r, pc |-> "resolved"])
               ELSE /\ ret' = NoRet
                    /\ dash' = Append(dash, [request |-> r, pc |-> "build"])
    /\ UNCHANGED <<now, initialized, events, file, tmp, writeChain, waiters, recs, purges,
                   ioFailed, progressVars, cacheCalls>>

\* The handler after its awaits: the response built for the request is stored
\* under the key and sent
DashboardRespond(d) ==
    LET r == dash[d].request
        response == [builtFor |-> r, timestamp |-> now] IN
    /\ dash[d].pc = "build"
    /\ cache' = SetCachedMetrics(cache, CacheKeyOf(r), response, TtlOfRequest(r), now)
    /\ dash' = [dash EXCEPT ![d].pc = "resolved"]
    /\ ret' = [op |-> "dashboard", request |-> r, status |-> 200,
               cached |-> FALSE, data |-> response]
    /\ UNCHANGED <<now, initialized, events, file, tmp, writeChain, waiters, recs, purges,
                   ioFailed, progressVars, cacheCalls>>

\* The handler throws after its awaits (404 Topic not found, 500): nothing is
\* stored
DashboardFail(d) ==
    /\ dash[d].pc = "build"
    /\ dash' = [dash EXCEPT ![d].pc = "resolved"]
    /\ ret' = [op |-> "dashboard", request |-> dash[d].request,
               status |-> IF dash[d].request.endpoint = "topic" THEN 404 ELSE 500]
    /\ UNCHANGED <<now, initialized, events, file, tmp, writeChain, waiters, recs, purges,
                   cache, ioFailed, progressVars, cacheCalls>>

\* SpecKeys: callers of every role request every dashboard endpoint while the
\* clock advances.
NextKeys ==
    \/ \E r \in Requests : DashboardRequest(r)
    \/ \E d \in 1..Len(dash) : DashboardRespond(d)
    \/ \E d \in 1..Len(dash) : DashboardFail(d)
    \/ Tick

SpecKeys == Init /\ [][NextKeys]_vars

-----------------------------------------------------------------------------
(* The DashboardCache called directly *)

MaxCacheCalls == 4     \* calls on the DashboardCache

CallKeys == {<<"dashboard:", "teacher">>, <<"plain">>}
CallPatterns == {<<"teacher">>, <<"topic">>, <<>>}
CallValues == {[metrics |-> "m1"], [metrics |-> "m2"]}
CallTtls == {0 - DayMs, DayMs}

\* getCachedMetrics(cacheKey)
GetCachedMetricsCall(key) ==
    /\ Len(cacheCalls) < MaxCacheCalls
    /\ cache' = StoreAfterGet(cache, key, now)
    /\ ret' = [op |-> "getCachedMetrics", key |-> key,
               result |-> CachedValue(cache, key, now)]
    /\ cacheCalls' = Append(cacheCalls, [op |-> "get", key |-> key, at |-> now])
    /\ UNCHANGED <<now, initialized, events, file, tmp, writeChain, waiters, recs, purges,
                   dash, ioFailed, progressVars>>

\* setCachedMetrics(cacheKey, metrics, ttlMs)
SetCachedMetricsCall(key, metrics, ttlMs) ==
    /\ Len(cacheCalls) < MaxCacheCalls
    /\ cache' = SetCachedMetrics(cache, key, metrics, ttlMs, now)
    /\ ret' = [op |-> "setCachedMetrics"]
    /\ cacheCalls' = Append(cacheCalls, [op |-> "set", key |-> key, value |-> metrics,
                                         ttlMs |-> ttlMs, at |-> now])
    /\ UNCHANGED <<now, initialized, events, file, tmp, writeChain, waiters, recs, purges,
                   dash, ioFailed, progressVars>>

\* invalidateCache(pattern)
InvalidateCacheCall(pattern) ==
    /\ Len(cacheCalls) < MaxCacheCalls
    /\ cache' = InvalidateCache(cache, pattern)
    /\ ret' = [op |-> "invalidateCache"]
    /\ cacheCalls' = Append(cacheCalls, [op |-> "invalidate", pattern |-> pattern,
                                         at |-> now])
    /\ UNCHANGED <<now, initialized, events, file, tmp, writeChain, waiters, recs, purges,
                   dash, ioFailed, progressVars>>

\* clearAllCache()
ClearAllCacheCall ==
    /\ Len(cacheCalls) < MaxCacheCalls
    /\ cache' = <<>>
    /\ ret' = [op |-> "clearAllCache"]
    /\ cacheCalls' = Append(cacheCalls, [op |-> "clear", at |-> now])
    /\ UNCHANGED <<now, initialized, events, file, tmp, writeChain, waiters, recs, purges,
                   dash, ioFailed, progressVars>>

\* SpecCache: callers get, set, invalidate and clear entries while the clock
\* advances.
NextCache ==
    \/ \E k \in CallKeys : GetCachedMetricsCall(k)
    \/ \E k \in CallKeys, v \in CallValues, t \in CallTtls : SetCachedMetricsCall(k, v, t)
    \/ \E p \in CallPatterns : InvalidateCacheCall(p)
    \/ ClearAllCacheCall
    \/ Tick

SpecCache == Init /\ [][NextCache]_vars

-----------------------------------------------------------------------------
(* ProgressStore *)

Students == {"s1", "s2"}
Topics == {"Fractions", "Algebra"}
DepthLevels == {"Core", "Applied", "Mastery"}

MistakePatterns == {"sign_error", "unit_error"}

RECURSIVE Gcd(_, _)
Gcd(a, b) == IF b = 0 THEN a ELSE Gcd(b, a % b)

\* A non-negative rational in lowest terms
Rat(n, d) == LET g == Gcd(n, d) IN [num |-> n \div g, den |-> d \div g]

\* ((avg * (n - 1)) + q) / n, with q given in tenths
RunningMean(avg, q, n) ==
    Rat(avg.num * (n - 1) * 10 + q * avg.den, avg.den * 10 * n)

\* The topic record that createNewTopicProgress and recalculateAllTopics
\* start from
NewTopicProgress(topic, lastInteraction) ==
    [topic |-> topic,
     masteryLevel |-> 0,
     confidenceTrend |-> "stable",
     errorFrequency |-> [m \in MistakePatterns |-> 0],
     lastInteraction |-> lastInteraction,
     depthProgress |-> "Core",
     reasoningAverage |-> Rat(0, 1),
     attemptCount |-> 0,
     depthAttempts |-> [d \in DepthLevels |-> 0],
     masteryHistory |-> <<>>]

RECURSIVE Sum(_)
Sum(seq) == IF seq = <<>> THEN 0 ELSE Head(seq) + Sum(Tail(seq))

\* history.slice(-n)
LastN(seq, n) == SubSeq(seq, Max(1, Len(seq) - n + 1), Len(seq))

\* history.slice(-10, -5)
Older(seq) == SubSeq(seq, Max(1, Len(seq) - 9), Len(seq) - 5)

\* The trend over windows of 3 and 3 entries instead of 5 and 5
ConfidenceTrendOverThree(history) ==
    LET recent == LastN(history, 3)
        older == SubSeq(history, Max(1, Len(history) - 5), Len(history) - 3)
        scaled == Sum(recent) * Len(older) - Sum(older) * Len(recent)
        five == 5 * Len(recent) * Len(older)
    IN  IF Len(older) = 0 THEN "stable"
        ELSE IF scaled > five THEN "improving"
        ELSE IF scaled < 0 - five THEN "declining"
        ELSE "stable"

\* calculateConfidenceTrend: recentAvg - olderAvg against +5 and -5
CalculateConfidenceTrend(history) ==
    LET recent == LastN(history, 5)
        older == Older(history)
        \* (recentAvg - olderAvg) * |recent| * |older|
        scaled == Sum(recent) * Len(older) - Sum(older) * Len(recent)
        five == 5 * Len(recent) * Len(older)
    IN  IF Len(older) = 0 THEN "stable"
        ELSE IF scaled > five THEN "improving"
        ELSE IF scaled < 0 - five THEN "declining"
        ELSE "stable"

RECURSIVE AddPatterns(_, _)
\* mistakePatterns.forEach(pattern => errorFrequency[pattern] += 1)
AddPatterns(freq, patterns) ==
    IF patterns = <<>> THEN freq
    ELSE AddPatterns([freq EXCEPT ![Head(patterns)] = @ + 1], Tail(patterns))

MasteryAfterUnclamped(level, depth, success) ==
    IF success
    THEN CASE depth = "Core" -> level + 10
           [] depth = "Applied" -> level + 15
           [] depth = "Mastery" -> level + 25
    ELSE level - 5

MasteryAfterFlat(level, depth, success) ==
    IF success THEN Min(100, level + 10) ELSE Max(0, level - 5)

\* The masteryLevel after one event
MasteryAfter(level, depth, success) ==
    IF success
    THEN CASE depth = "Core" -> Min(100, level + 10)
           [] depth = "Applied" -> Min(100, level + 15)
           [] depth = "Mastery" -> Min(100, level + 25)
    ELSE Max(0, level - 5)

DepthAfterFailureRegresses(current, depth, success) ==
    IF success
    THEN CASE depth = "Core" -> current
           [] depth = "Applied" -> "Applied"
           [] depth = "Mastery" -> "Mastery"
    ELSE "Core"

\* The depthProgress after one event
DepthAfter(current, depth, success) ==
    IF success
    THEN CASE depth = "Core" -> current
           [] depth = "Applied" -> "Applied"
           [] depth = "Mastery" -> "Mastery"
    ELSE current

\* The body of the loop of recalculateAllTopics, for the topic of the event
RecalcStep(tp, e) ==
    LET level == MasteryAfter(tp.masteryLevel, e.depth, e.success) IN
    [tp EXCEPT !.attemptCount = @ + 1,
               !.depthAttempts[e.depth] = @ + 1,
               !.lastInteraction = e.timestamp,
               !.masteryLevel = level,
               !.depthProgress = DepthAfter(@, e.depth, e.success),
               !.masteryHistory = Append(@, level),
               !.reasoningAverage = RunningMean(@, e.reasoningQuality, tp.attemptCount + 1),
               !.errorFrequency = AddPatterns(@, e.mistakePatterns)]

\* topics.find(t => t.topic === topic): its index, 0 when absent
FindTopic(topics, topic) ==
    LET found == {k \in 1..Len(topics) : topics[k].topic = topic} IN
    IF found = {} THEN 0 ELSE CHOOSE k \in found : \A j \in found : k <= j

\* One turn of the loop of recalculateAllTopics: the topic map after event `e`
ReplayStep(topics, e) ==
    LET at == FindTopic(topics, e.topic)
        withTopic == IF at = 0
                     THEN Append(topics, NewTopicProgress(e.topic, e.timestamp))
                     ELSE topics
        k == IF at = 0 THEN Len(withTopic) ELSE at
    IN  [withTopic EXCEPT ![k] = RecalcStep(@, e)]

RECURSIVE ReplayInto(_, _)
\* The loop of recalculateAllTopics over `evts`, from the topic map `topics`:
\* the first half of the events, then the second half
ReplayInto(topics, evts) ==
    IF evts = <<>> THEN topics
    ELSE IF Len(evts) = 1 THEN ReplayStep(topics, evts[1])
    ELSE LET half == Len(evts) \div 2
             first == ReplayInto(topics, SubSeq(evts, 1, half))
             \* Len(first) is never 0: the test has `first` evaluated before
             \* the second half starts, which keeps long replays shallow
         IN  IF Len(first) = 0 THEN first
             ELSE ReplayInto(first, SubSeq(evts, half + 1, Len(evts)))

\* topicMap.forEach: the trend of a topic with at least 3 history points
WithTrend(tp) ==
    IF Len(tp.masteryHistory) >= 3
    THEN [tp EXCEPT !.confidenceTrend = CalculateConfidenceTrend(tp.masteryHistory)]
    ELSE tp

\* recalculateAllTopics(events)
RecalculateAllTopics(evts) ==
    LET topics == ReplayInto(<<>>, evts) IN
    [k \in 1..Len(topics) |-> WithTrend(topics[k])]

\* Math.round of a non-negative quotient
RoundDiv(n, d) == (2 * n + d) \div (2 * d)

\* calculateOverallMastery
CalculateOverallMastery(topics) ==
    IF Len(topics) = 0 THEN 0
    ELSE RoundDiv(Sum([k \in 1..Len(topics) |-> topics[k].masteryLevel]), Len(topics))

\* this.events.get(studentId) || []
EventsIn(this, s) == IF s \in DOMAIN this.events THEN this.events[s] ELSE <<>>

\* The ProgressStore: its students and events maps
ThisStore == [students |-> students, events |-> pEvents]

EventsOf(s) == EventsIn(ThisStore, s)

\* A getStudentProgress that returns the topics kept in the students map
GetStoredProgress(this, s) ==
    IF s \notin DOMAIN this.students THEN Null
    ELSE LET evts == EventsIn(this, s) IN
         [this.students[s] EXCEPT
            !.overallMastery = CalculateOverallMastery(this.students[s].topics),
            !.totalInteractions = Len(evts),
            !.lastActivity = IF Len(evts) > 0
                             THEN evts[Len(evts)].timestamp
                             ELSE this.students[s].lastActivity]

\* getStudentProgress(studentId): what it returns
GetStudentProgress(this, s) ==
    IF s \notin DOMAIN this.students THEN Null
    ELSE LET evts == EventsIn(this, s)
             topics == RecalculateAllTopics(evts)
         IN  [this.students[s] EXCEPT
                !.topics = topics,
                !.overallMastery = CalculateOverallMastery(topics),
                !.totalInteractions = Len(evts),
                !.lastActivity = IF Len(evts) > 0
                                 THEN evts[Len(evts)].timestamp
                                 ELSE this.students[s].lastActivity]

\* createNewStudentProgress
NewStudentProgress(s) ==
    [studentId |-> s, topics |-> <<>>, overallMastery |-> 0,
     totalInteractions |-> 0, lastActivity |-> 0, createdAt |-> 0]

\* An update that leaves the confidenceTrend of the topic as it was
UpdateTopicWithoutTrend(topics, e) ==
    LET at == FindTopic(topics, e.topic)
        withTopic == IF at = 0
                     THEN Append(topics, NewTopicProgress(e.topic, 0))
                     ELSE topics
        k == IF at = 0 THEN Len(withTopic) ELSE at
    IN  [withTopic EXCEPT ![k] = RecalcStep(@, e)]

\* updateTopicProgressFromEvent(progress, event): the topics it leaves
UpdateTopicProgressFromEvent(topics, e) ==
    LET at == FindTopic(topics, e.topic)
        withTopic == IF at = 0
                     THEN Append(topics, NewTopicProgress(e.topic, 0))
                     ELSE topics
        k == IF at = 0 THEN Len(withTopic) ELSE at
        tp == withTopic[k]
        level == MasteryAfter(tp.masteryLevel, e.depth, e.success)
        updated ==
            [tp EXCEPT !.attemptCount = @ + 1,
                       !.depthAttempts[e.depth] = @ + 1,
                       !.lastInteraction = e.timestamp,
                       !.masteryLevel = level,
                       !.depthProgress = DepthAfter(@, e.depth, e.success),
                       !.masteryHistory = Append(@, level),
                       !.reasoningAverage =
                            RunningMean(@, e.reasoningQuality, tp.attemptCount + 1),
                       !.errorFrequency = AddPatterns(@, e.mistakePatterns)]
    IN  [withTopic EXCEPT ![k] = WithTrend(updated)]

Put(map, key, value) ==
    [k \in (DOMAIN map) \cup {key} |-> IF k = key THEN value ELSE map[k]]

RECURSIVE TotalLen(_, _)
TotalLen(map, keys) ==
    IF keys = {} THEN 0
    ELSE LET k == CHOOSE x \in keys : TRUE IN Len(map[k]) + TotalLen(map, keys \ {k})

MaxEvents == 2         \* addEvent calls
MaxUpdates == 1        \* updateTopicProgress calls

\* What a caller reports of one attempt: a success comes with a reasoning
\* quality of 0.8 and no mistake, a failure with 0.5 and a sign error
Attempts ==
    {[depth |-> d, success |-> ok,
      reasoningQuality |-> IF ok THEN 8 ELSE 5,
      mistakePatterns |-> IF ok THEN <<>> ELSE <<"sign_error">>] :
        d \in DepthLevels, ok \in BOOLEAN}

LearningEvent(s, topic, a, timestamp) ==
    [studentId |-> s, topic |-> topic, depth |-> a.depth, success |-> a.success,
     reasoningQuality |-> a.reasoningQuality, mistakePatterns |-> a.mistakePatterns,
     timestamp |-> timestamp]

\* addEvent(event) on a store: the maps it leaves
StoreAfterAddEvent(store, e) ==
    LET s == e.studentId
        studentEvents == EventsIn(store, s)
        progress == IF s \in DOMAIN store.students
                    THEN store.students[s]
                    ELSE NewStudentProgress(s)
    IN  [events |-> Put(store.events, s, Append(studentEvents, e)),
         students |-> Put(store.students, s,
                          [progress EXCEPT
                              !.topics = UpdateTopicProgressFromEvent(@, e)])]

RECURSIVE StoreAfterAll(_, _)
StoreAfterAll(store, evts) ==
    IF evts = <<>> THEN store
    ELSE IF Len(evts) = 1 THEN StoreAfterAddEvent(store, evts[1])
    ELSE LET half == Len(evts) \div 2
             first == StoreAfterAll(store, SubSeq(evts, 1, half))
             \* `first` holds events: the test has it evaluated before the
             \* second half starts
         IN  IF DOMAIN first.events = {} THEN first
             ELSE StoreAfterAll(first, SubSeq(evts, half + 1, Len(evts)))

\* The histories a store starts with: none, or four successes of s1 at the
\* Mastery depth of Fractions.  The events of a history carry the timestamp 0.
Histories ==
    {<<>>,
     [k \in 1..4 |->
        LearningEvent("s1", "Fractions",
                      [depth |-> "Mastery", success |-> TRUE, reasoningQuality |-> 8,
                       mistakePatterns |-> <<>>], 0)]}

\* The number of events the store holds
TotalEvents == TotalLen(pEvents, DOMAIN pEvents)

RECURSIVE CountAdded(_, _)
CountAdded(map, keys) ==
    IF keys = {} THEN 0
    ELSE LET k == CHOOSE x \in keys : TRUE IN
         Len(SelectSeq(map[k], LAMBDA e : e.timestamp > 0)) + CountAdded(map, keys \ {k})

\* The number of events added since the start
Added == CountAdded(pEvents, DOMAIN pEvents)

\* addEvent(event)
AddEvent(s, topic, a) ==
    LET after == StoreAfterAddEvent(ThisStore,
                                    LearningEvent(s, topic, a, TotalEvents + 1))
    IN  /\ Added < MaxEvents
        /\ pEvents' = after.events
        /\ students' = after.students
        /\ ret' = [op |-> "addEvent"]
        /\ UNCHANGED <<updates, storeVars>>

\* A getStudentProgress that replays the events onto the topics kept in the
\* students map and keeps the outcome there
GetStudentProgressOntoStored(s) ==
    /\ IF s \notin DOMAIN students
       THEN /\ ret' = [op |-> "getStudentProgress", student |-> s, result |-> Null,
                       again |-> ret.op = "getStudentProgress" /\ ret.student = s]
            /\ UNCHANGED students
       ELSE LET topics == ReplayInto(students[s].topics, EventsOf(s)) IN
            /\ students' = [students EXCEPT ![s].topics = topics]
            /\ ret' = [op |-> "getStudentProgress", student |-> s,
                       result |-> [students[s] EXCEPT
                                     !.topics = topics,
                                     !.overallMastery = CalculateOverallMastery(topics),
                                     !.totalInteractions = Len(EventsOf(s))],
                       again |-> ret.op = "getStudentProgress" /\ ret.student = s]
    /\ UNCHANGED <<pEvents, updates, storeVars>>

\* A caller calls getStudentProgress(studentId); `again` tells a call that
\* directly follows another one for the same student
GetStudentProgressCall(s) ==
    /\ ret' = [op |-> "getStudentProgress", student |-> s,
               result |-> GetStudentProgress(ThisStore, s),
               again |-> ret.op = "getStudentProgress" /\ ret.student = s]
    /\ UNCHANGED <<progressVars, storeVars>>

\* Object.assign(target, updates)
ObjectAssign(target, upd) ==
    [f \in DOMAIN target |-> IF f \in DOMAIN upd THEN upd[f] ELSE target[f]]

\* The Partial<TopicProgress> values callers pass
TopicUpdates == {[topic |-> "Fractions", masteryLevel |-> 55, depthProgress |-> "Core"],
                 [topic |-> "Geometry", depthProgress |-> "Mastery"],
                 [masteryLevel |-> 10]}

\* updateTopicProgress(studentId, updates)
UpdateTopicProgress(s, upd) ==
    /\ updates < MaxUpdates
    /\ updates' = updates + 1
    /\ ret' = [op |-> "updateTopicProgress"]
    /\ IF s \notin DOMAIN students \/ "topic" \notin DOMAIN upd
       THEN UNCHANGED students
       ELSE LET topics == students[s].topics
                at == FindTopic(topics, upd.topic)
                withTopic == IF at = 0
                             THEN Append(topics, NewTopicProgress(upd.topic, 0))
                             ELSE topics
                k == IF at = 0 THEN Len(withTopic) ELSE at
            IN  students' = [students EXCEPT
                                ![s].topics = [withTopic EXCEPT
                                                  ![k] = ObjectAssign(@, upd)]]
    /\ UNCHANGED <<pEvents, storeVars>>

\* ProgressTracker.recordMistakePattern(studentId, topic, mistake): the count
\* is raised in the record getStudentProgress has just built, which nothing
\* keeps
RecordMistakePattern(s, topic, mistake) ==
    LET progress == GetStudentProgress(ThisStore, s)
        at == IF progress = Null THEN 0 ELSE FindTopic(progress.topics, topic)
        raised == IF at = 0 THEN progress
                  ELSE [progress EXCEPT !.topics[at].errorFrequency[mistake] = @ + 1]
    IN  /\ ret' = [op |-> "recordMistakePattern"]
        /\ UNCHANGED <<progressVars, storeVars>>

\* SpecProgress: callers add learning events, read a student's progress,
\* update a topic and record mistake patterns.
InitProgress ==
    /\ InitStore
    /\ file = <<>>
    /\ updates = 0
    /\ \E h \in Histories :
          LET store == StoreAfterAll([events |-> <<>>, students |-> <<>>], h) IN
          /\ pEvents = store.events
          /\ students = store.students

NextProgress ==
    \/ \E s \in Students, t \in Topics, a \in Attempts : AddEvent(s, t, a)
    \/ \E s \in Students : GetStudentProgressCall(s)
    \/ \E s \in Students, u \in TopicUpdates : UpdateTopicProgress(s, u)
    \/ \E s \in Students, t \in Topics, m \in MistakePatterns :
          RecordMistakePattern(s, t, m)

SpecProgress == InitProgress /\ [][NextProgress]_vars

MaxCoreRun == 11       \* Core successes a store starts with

\* n successes of s1 at the Core depth of Fractions
CoreRun(n) ==
    [k \in 1..n |->
        LearningEvent("s1", "Fractions",
                      [depth |-> "Core", success |-> TRUE, reasoningQuality |-> 8,
                       mistakePatterns |-> <<>>], 0)]

\* ProgressTracker.calculateMasteryDelta(depth, success)
CalculateMasteryDelta(depth, success) ==
    IF ~success THEN 0 - 5
    ELSE CASE depth = "Core" -> 10
           [] depth = "Applied" -> 15
           [] depth = "Mastery" -> 25

\* SpecMastery: callers add learning events and read the progress on a store
\* that starts with a run of Core successes.
InitMastery ==
    /\ InitStore
    /\ file = <<>>
    /\ updates = 0
    /\ \E n \in 0..MaxCoreRun :
          LET store == StoreAfterAll([events |-> <<>>, students |-> <<>>], CoreRun(n)) IN
          /\ pEvents = store.events
          /\ students = store.students

NextMastery ==
    \/ \E s \in Students, t \in Topics, a \in Attempts : AddEvent(s, t, a)
    \/ \E s \in Students : GetStudentProgressCall(s)

SpecMastery == InitMastery /\ [][NextMastery]_vars

-----------------------------------------------------------------------------
(* InsightGenerator *)

\* history.slice(-5) and history.slice(-10, -5) of a topic, and 60 times
\* recentAvg - olderAvg (60 is a multiple of every window length)
TopicChange60(tp) ==
    LET recent == LastN(tp.masteryHistory, 5)
        older == Older(tp.masteryHistory)
    IN  IF Len(older) = 0 THEN 0
        ELSE (60 \div Len(recent)) * Sum(recent) - (60 \div Len(older)) * Sum(older)

HasOlder(tp) == Len(Older(tp.masteryHistory)) > 0

\* analyzeMasteryTrend(progress)
AnalyzeMasteryTrend(progress) ==
    LET topics == SelectSeq(progress.topics, LAMBDA tp : Len(tp.masteryHistory) >= 3)
        n == Len(topics)
        withOlder == {k \in 1..n : HasOlder(topics[k])}
        acceleratingCount == Cardinality({k \in withOlder : TopicChange60(topics[k]) > 600})
        decliningCount == Cardinality({k \in withOlder : TopicChange60(topics[k]) < 0 - 600})
        \* 60 * totalChange; avgChange = totalChange / n
        totalChange60 == Sum([k \in 1..n |-> TopicChange60(topics[k])])
    IN  IF Len(progress.topics) < 2 THEN "steady"
        ELSE IF n = 0 THEN "steady"
        ELSE IF totalChange60 > 8 * 60 * n /\ 2 * acceleratingCount > n THEN "accelerating"
        ELSE IF totalChange60 < 0 - 8 * 60 * n /\ 2 * decliningCount > n THEN "declining"
        ELSE IF totalChange60 < 3 * 60 * n /\ totalChange60 > 0 - 3 * 60 * n THEN "plateauing"
        ELSE "steady"

RECURSIVE HighestFrom(_, _, _)
\* progress.topics.reduce((max, tp) => tp.masteryLevel > (max?.masteryLevel || 0)
\* ? tp : max, null): the index of the topic kept, 0 for null
HighestFrom(topics, k, max) ==
    IF k > Len(topics) THEN max
    ELSE HighestFrom(topics, k + 1,
                     IF topics[k].masteryLevel > (IF max = 0 THEN 0
                                                  ELSE topics[max].masteryLevel)
                     THEN k ELSE max)

\* Object.values(tp.errorFrequency).reduce((a, b) => a + b, 0)
ErrorCount(tp) ==
    LET keys == DOMAIN tp.errorFrequency
        F[S \in SUBSET keys] ==
            IF S = {} THEN 0
            ELSE LET k == CHOOSE x \in S : TRUE IN tp.errorFrequency[k] + F[S \ {k}]
    IN  F[keys]

ErrorProne(tp) == ErrorCount(tp) >= 3 /\ tp.attemptCount < 5

ReadyForMastery(tp) == tp.masteryLevel >= 80 /\ tp.depthProgress = "Core"

SignalReadyBeforePractice(progress, masteryTrend) ==
    LET overallMastery == progress.overallMastery
        highest == HighestFrom(progress.topics, 1, 0)
        topics == progress.topics
    IN  IF overallMastery >= 85 /\ highest # 0
           /\ topics[IF highest = 0 THEN 1 ELSE highest].confidenceTrend = "improving"
        THEN "INCREASE_DEPTH"
        ELSE IF overallMastery >= 50 /\ overallMastery < 85 /\ masteryTrend # "declining"
        THEN "MAINTAIN_LEVEL"
        ELSE IF overallMastery < 50 \/ masteryTrend = "declining"
        THEN "REDUCE_COMPLEXITY"
        ELSE IF \E k \in 1..Len(topics) : ReadyForMastery(topics[k])
        THEN "READY_FOR_MASTERY"
        ELSE IF \E k \in 1..Len(topics) : ErrorProne(topics[k])
        THEN "PRACTICE_MORE"
        ELSE "MAINTAIN_LEVEL"

\* A precedence that looks for error-prone topics before reducing complexity
SignalPracticeBeforeReduce(progress, masteryTrend) ==
    LET overallMastery == progress.overallMastery
        highest == HighestFrom(progress.topics, 1, 0)
        topics == progress.topics
    IN  IF overallMastery >= 85 /\ highest # 0
           /\ topics[IF highest = 0 THEN 1 ELSE highest].confidenceTrend = "improving"
        THEN "INCREASE_DEPTH"
        ELSE IF overallMastery >= 50 /\ overallMastery < 85 /\ masteryTrend # "declining"
        THEN "MAINTAIN_LEVEL"
        ELSE IF \E k \in 1..Len(topics) : ErrorProne(topics[k])
        THEN "PRACTICE_MORE"
        ELSE IF overallMastery < 50 \/ masteryTrend = "declining"
        THEN "REDUCE_COMPLEXITY"
        ELSE IF \E k \in 1..Len(topics) : ReadyForMastery(topics[k])
        THEN "READY_FOR_MASTERY"
        ELSE "MAINTAIN_LEVEL"

\* determineAdaptiveSignal(progress, masteryTrend)
DetermineAdaptiveSignal(progress, masteryTrend) ==
    LET overallMastery == progress.overallMastery
        highest == HighestFrom(progress.topics, 1, 0)
        topics == progress.topics
    IN  IF overallMastery >= 85 /\ highest # 0
           /\ topics[IF highest = 0 THEN 1 ELSE highest].confidenceTrend = "improving"
        THEN "INCREASE_DEPTH"
        ELSE IF overallMastery >= 50 /\ overallMastery < 85 /\ masteryTrend # "declining"
        THEN "MAINTAIN_LEVEL"
        ELSE IF overallMastery < 50 \/ masteryTrend = "declining"
        THEN "REDUCE_COMPLEXITY"
        ELSE IF \E k \in 1..Len(topics) : ErrorProne(topics[k])
        THEN "PRACTICE_MORE"
        ELSE IF \E k \in 1..Len(topics) : ReadyForMastery(topics[k])
        THEN "READY_FOR_MASTERY"
        ELSE "MAINTAIN_LEVEL"

\* generateInsights(studentId): masteryTrend and adaptiveSignal of the result
GenerateInsights(s) ==
    LET progress == GetStudentProgress(ThisStore, s)
        masteryTrend == AnalyzeMasteryTrend(progress)
    IN  /\ ret' = [op |-> "generateInsights", student |-> s,
                   result |-> IF progress = Null THEN Null
                              ELSE [adaptiveSignal |->
                                        DetermineAdaptiveSignal(progress, masteryTrend),
                                    masteryTrend |-> masteryTrend]]
        /\ UNCHANGED <<storeVars, progressVars>>

\* Sequences over `set` of length at most n
SeqsUpTo(set, n) == UNION {[1..k -> set] : k \in 0..n}

\* n attempts alike
Repeat(a, n) == [k \in 1..n |-> a]

Succeeds(depth) ==
    [depth |-> depth, success |-> TRUE, reasoningQuality |-> 8, mistakePatterns |-> <<>>]

SucceedsWithSlip(depth) ==
    [depth |-> depth, success |-> TRUE, reasoningQuality |-> 8,
     mistakePatterns |-> <<"sign_error">>]

Fails(depth) ==
    [depth |-> depth, success |-> FALSE, reasoningQuality |-> 5,
     mistakePatterns |-> <<"sign_error">>]

\* The attempts a student may have made on one topic before insights are asked
TopicScripts ==
    {<<>>,
     Repeat(Succeeds("Mastery"), 4),
     Repeat(Succeeds("Core"), 5),
     Repeat(Succeeds("Core"), 8),
     Repeat(Succeeds("Core"), 10),
     Repeat(SucceedsWithSlip("Mastery"), 3),
     Repeat(Succeeds("Mastery"), 4) \o Repeat(Fails("Core"), 8),
     Repeat(Fails("Core"), 3),
     Repeat(Succeeds("Core"), 1)}

InsightTopics == <<"Fractions", "Algebra", "Geometry">>

\* The learning events of s1 that the scripts of the three topics amount to
ScriptEvents(scripts) ==
    LET of(k) == [j \in 1..Len(scripts[k]) |->
                    LearningEvent("s1", InsightTopics[k], scripts[k][j], 0)]
    IN  of(1) \o of(2) \o of(3)

\* SpecInsights: callers ask for the insights and the progress of a student
\* whose store holds the events of one script for each of three topics.
InitInsights ==
    /\ InitStore
    /\ file = <<>>
    /\ updates = 0
    /\ \E scripts \in [1..3 -> TopicScripts] :
          LET store == StoreAfterAll([events |-> <<>>, students |-> <<>>],
                                    ScriptEvents(scripts)) IN
          /\ pEvents = store.events
          /\ students = store.students

NextInsights ==
    \/ \E s \in Students : GenerateInsights(s)
    \/ \E s \in Students : GetStudentProgressCall(s)

SpecInsights == InitInsights /\ [][NextInsights]_vars

-----------------------------------------------------------------------------
(* ProgressTracker.recalculateConfidenceTrend *)

RECURSIVE ExtractFrom(_, _, _)
\* The loop of extractMasteryHistory
ExtractFrom(evts, currentMastery, history) ==
    IF evts = <<>> THEN history
    ELSE LET delta == CalculateMasteryDelta(Head(evts).depth, Head(evts).success)
             next == Max(0, Min(100, currentMastery + delta))
         IN  ExtractFrom(Tail(evts), next, Append(history, next))

\* extractMasteryHistory(events)
ExtractMasteryHistory(evts) == ExtractFrom(evts, 0, <<>>)

\* computeTrend(history): history.slice(-3) against history.slice(-6, -3)
ComputeTrend(history) ==
    IF Len(history) < 3 THEN "stable"
    ELSE LET recent == LastN(history, 3)
             older == SubSeq(history, Max(1, Len(history) - 5), Len(history) - 3)
             scaled == Sum(recent) * Len(older) - Sum(older) * Len(recent)
             five == 5 * Len(recent) * Len(older)
         IN  IF Len(older) = 0 THEN "stable"
             ELSE IF scaled > five THEN "improving"
             ELSE IF scaled < 0 - five THEN "declining"
             ELSE "stable"

\* recalculateConfidenceTrend(studentId, topic)
RecalculateConfidenceTrend(this, s, topic) ==
    LET topicEvents == SelectSeq(EventsIn(this, s), LAMBDA e : e.topic = topic) IN
    IF Len(topicEvents) < 3 THEN "stable"
    ELSE ComputeTrend(ExtractMasteryHistory(topicEvents))

RecalculateConfidenceTrendCall(s, topic) ==
    /\ ret' = [op |-> "recalculateConfidenceTrend", student |-> s, topic |-> topic,
               result |-> RecalculateConfidenceTrend(ThisStore, s, topic)]
    /\ UNCHANGED <<storeVars, progressVars>>

\* SpecTrend: callers ask the tracker for the trend of a topic and the store
\* for the progress of a student, on the stores of SpecInsights.
NextTrend ==
    \/ \E s \in Students, k \in 1..Len(InsightTopics) :
          RecalculateConfidenceTrendCall(s, InsightTopics[k])
    \/ \E s \in Students : GetStudentProgressCall(s)

SpecTrend == InitInsights /\ [][NextTrend]_vars

-----------------------------------------------------------------------------
(* ProgressTracker.recordInteraction, batchRecordInteractions *)

MaxTracked == 3        \* events handed to the tracker

\* The values a caller may put in the fields of an event.  An array has the
\* type "array" here: typeof gives 'object' and Array.isArray gives true.
\* Of the fields str, num, bool and arr, the one of the type holds the value.
JsString(s) == [type |-> "string", str |-> s, num |-> 0, bool |-> FALSE, arr |-> <<>>]
JsNumber(n) == [type |-> "number", str |-> "", num |-> n, bool |-> FALSE, arr |-> <<>>]
JsBoolean(b) == [type |-> "boolean", str |-> "", num |-> 0, bool |-> b, arr |-> <<>>]
JsArray(a) == [type |-> "array", str |-> "", num |-> 0, bool |-> FALSE, arr |-> a]
Undefined == [type |-> "undefined", str |-> "", num |-> 0, bool |-> FALSE, arr |-> <<>>]

\* !v is false
Truthy(v) ==
    CASE v.type = "string" -> v.str # ""
      [] v.type = "number" -> v.num # 0
      [] v.type = "boolean" -> v.bool
      [] v.type = "array" -> TRUE
      [] v.type = "undefined" -> FALSE

\* list.includes(v) for a list of strings
IncludesValue(list, v) == v.type = "string" /\ v.str \in list

\* An event that passes validateEvent.  reasoningQuality is in tenths.
ValidRaw(s, a) ==
    [studentId |-> JsString(s), topic |-> JsString("Fractions"),
     depth |-> JsString(a.depth), taskType |-> JsString("Learning"),
     reasoningQuality |-> JsNumber(a.reasoningQuality),
     success |-> JsBoolean(a.success),
     mistakePatterns |-> JsArray(a.mistakePatterns),
     timeSpent |-> JsNumber(30), timestamp |-> JsString("2024-01-01T00:00:00Z")]

FirstRaw == ValidRaw("s1", Succeeds("Core"))
SecondRaw == ValidRaw("s2", Fails("Mastery"))
ThirdRaw == ValidRaw("s1", Succeeds("Applied"))

\* Events with one field that validateEvent refuses
InvalidRaws ==
    {[FirstRaw EXCEPT !.studentId = JsString("")],
     [FirstRaw EXCEPT !.studentId = JsNumber(7)],
     [FirstRaw EXCEPT !.topic = Undefined],
     [FirstRaw EXCEPT !.depth = JsString("Expert")],
     [FirstRaw EXCEPT !.taskType = JsString("Quiz")],
     [FirstRaw EXCEPT !.reasoningQuality = JsNumber(11)],
     [FirstRaw EXCEPT !.reasoningQuality = JsNumber(0 - 1)],
     [FirstRaw EXCEPT !.success = JsString("yes")],
     [FirstRaw EXCEPT !.mistakePatterns = JsString("sign_error")],
     [FirstRaw EXCEPT !.timeSpent = JsNumber(0 - 1)],
     [FirstRaw EXCEPT !.timeSpent = JsString("30")],
     [FirstRaw EXCEPT !.timestamp = JsString("")],
     [FirstRaw EXCEPT !.timestamp = Undefined]}

RawEvents == {FirstRaw, SecondRaw, ThirdRaw} \cup InvalidRaws

\* The events of a batch
BatchEvents ==
    {FirstRaw, SecondRaw, ThirdRaw, [FirstRaw EXCEPT !.taskType = JsString("Quiz")]}

\* validateEvent(event): the message of the error it throws, "ok" when it
\* returns.  reasoningQuality is a number in the events of the model.
ValidateEvent(event) ==
    IF ~Truthy(event.studentId) \/ event.studentId.type # "string"
    THEN "Invalid student ID"
    ELSE IF ~Truthy(event.topic) \/ event.topic.type # "string"
    THEN "Invalid topic"
    ELSE IF ~IncludesValue({"Core", "Applied", "Mastery"}, event.depth)
    THEN "Invalid depth level"
    ELSE IF ~IncludesValue({"Learning", "Assignment"}, event.taskType)
    THEN "Invalid task type"
    ELSE IF event.reasoningQuality.num < 0 \/ event.reasoningQuality.num > 10
    THEN "Reasoning quality must be between 0 and 1"
    ELSE IF event.success.type # "boolean"
    THEN "Success must be a boolean"
    ELSE IF event.mistakePatterns.type # "array"
    THEN "Mistake patterns must be an array"
    ELSE IF event.timeSpent.type # "number" \/ event.timeSpent.num < 0
    THEN "Time spent must be a positive number"
    ELSE IF ~Truthy(event.timestamp)
    THEN "Timestamp is required"
    ELSE "ok"

\* The event as the store keeps it; its timestamp is its rank among the
\* events of the store
Stored(event, stamp) ==
    [studentId |-> event.studentId.str, topic |-> event.topic.str,
     depth |-> event.depth.str, success |-> event.success.bool,
     reasoningQuality |-> event.reasoningQuality.num,
     mistakePatterns |-> event.mistakePatterns.arr, timestamp |-> stamp]

\* recordInteraction(event) on a store: the store it leaves and whether it
\* throws
RecordInto(store, event) ==
    IF ValidateEvent(event) # "ok" THEN [store |-> store, threw |-> TRUE]
    ELSE [store |-> StoreAfterAddEvent(store,
                        Stored(event, TotalLen(store.events, DOMAIN store.events) + 1)),
          threw |-> FALSE]

RecordInteraction(event) ==
    LET out == RecordInto(ThisStore, event) IN
    /\ Added < MaxTracked
    /\ pEvents' = out.store.events
    /\ students' = out.store.students
    /\ ret' = [op |-> "recordInteraction", event |-> event, threw |-> out.threw,
               result |-> IF out.threw THEN Null
                          ELSE GetStudentProgress(out.store, event.studentId.str)]
    /\ UNCHANGED <<updates, storeVars>>

RECURSIVE BatchSkippingInvalid(_, _, _)
\* A loop that passes over the events recordInteraction refuses
BatchSkippingInvalid(store, evts, done) ==
    IF evts = <<>> THEN [store |-> store, threw |-> FALSE, recorded |-> done]
    ELSE LET out == RecordInto(store, Head(evts)) IN
         IF out.threw
         THEN [BatchSkippingInvalid(store, Tail(evts), done) EXCEPT !.threw = TRUE]
         ELSE BatchSkippingInvalid(out.store, Tail(evts), done + 1)

RECURSIVE BatchFrom(_, _, _)
\* The loop of batchRecordInteractions: `done` results are pushed so far
BatchFrom(store, evts, done) ==
    IF evts = <<>> THEN [store |-> store, threw |-> FALSE, recorded |-> done]
    ELSE LET out == RecordInto(store, Head(evts)) IN
         IF out.threw THEN [store |-> store, threw |-> TRUE, recorded |-> done]
         ELSE BatchFrom(out.store, Tail(evts), done + 1)

\* batchRecordInteractions(events)
BatchRecordInteractions(evts) ==
    LET out == BatchFrom(ThisStore, evts, 0) IN
    /\ Added + Len(evts) <= MaxTracked
    /\ pEvents' = out.store.events
    /\ students' = out.store.students
    /\ ret' = [op |-> "batchRecordInteractions", events |-> evts, threw |-> out.threw,
               recorded |-> out.recorded]
    /\ UNCHANGED <<updates, storeVars>>

\* SpecTracker: callers hand events and batches of events to the tracker and
\* read the progress.
NextTracker ==
    \/ \E event \in RawEvents : RecordInteraction(event)
    \/ \E evts \in SeqsUpTo(BatchEvents, MaxTracked) : BatchRecordInteractions(evts)
    \/ \E s \in Students : GetStudentProgressCall(s)

SpecTracker == InitProgress /\ [][NextTracker]_vars

-----------------------------------------------------------------------------
(* dashboardAggregator *)

MaxInteractions == 4   \* interaction events given to aggregateTeacherMetrics

\* computeDepthDistribution(events)
ComputeDepthDistribution(depths) ==
    [d \in DepthLevels |-> Len(SelectSeq(depths, LAMBDA x : x = d))]

\* Number((n / total).toFixed(3)), in thousandths: the nearest thousandth,
\* the larger one on a tie
ToFixed3(n, total) == (2000 * n + total) \div (2 * total)

\* normalizeDistribution(d), in thousandths
NormalizeDistribution(d) ==
    LET total == d["Core"] + d["Applied"] + d["Mastery"] IN
    IF total = 0 THEN d
    ELSE [Core |-> ToFixed3(d["Core"], total),
          Applied |-> ToFixed3(d["Applied"], total),
          Mastery |-> ToFixed3(d["Mastery"], total)]

\* aggregateTeacherMetrics(rawData): totalInteractions and depthDistribution
AggregateTeacherMetrics(interactionDepths) ==
    /\ ret' = [op |-> "aggregateTeacherMetrics",
               interactionDepths |-> interactionDepths,
               totalInteractions |-> Len(interactionDepths),
               depthDistribution |->
                   NormalizeDistribution(ComputeDepthDistribution(interactionDepths))]
    /\ UNCHANGED <<storeVars, progressVars>>

\* SpecDepths: aggregateTeacherMetrics over the interaction depths of a period.
InitFigures ==
    /\ InitStore
    /\ file = <<>>
    /\ InitProgressIdle

NextDepths ==
    \E depths \in SeqsUpTo(DepthLevels, MaxInteractions) : AggregateTeacherMetrics(depths)

SpecDepths == InitFigures /\ [][NextDepths]_vars

MaxFlags == 2          \* count of each kind of ethics flag
MaxTotal == 10         \* totalInteractions given to computeComplianceScore

EthicsMetrics ==
    [cheatingDetected : 0..MaxFlags, privacyAlerts : 0..MaxFlags,
     assignmentEnforcements : 0..MaxFlags, promptModifications : 0..MaxFlags]

\* Math.round(n / d) for n >= 0 and d > 0: the nearest integer, the larger
\* one on a tie
MathRound(n, d) == (2 * n + d) \div (2 * d)

ComplianceScoreUnweighted(ethics, totalInteractions) ==
    LET normalizedInteractions == Max(1, totalInteractions)
        severity == ethics.cheatingDetected + ethics.privacyAlerts
                        + ethics.assignmentEnforcements + ethics.promptModifications
        penalty == Min(100 * normalizedInteractions, severity * 200)
    IN  Max(0, Min(100, MathRound(100 * normalizedInteractions - penalty,
                                  normalizedInteractions)))

\* computeComplianceScore(ethics, totalInteractions); rate, penalty and score
\* are kept as numerators over normalizedInteractions
ComputeComplianceScore(ethics, totalInteractions) ==
    LET normalizedInteractions == Max(1, totalInteractions)
        severity == ethics.cheatingDetected * 2 + ethics.privacyAlerts * 3
                        + ethics.assignmentEnforcements + ethics.promptModifications
        penalty == Min(100 * normalizedInteractions, severity * 200)
    IN  Max(0, Min(100, MathRound(100 * normalizedInteractions - penalty,
                                  normalizedInteractions)))

ComplianceScoreCall(ethics, totalInteractions) ==
    /\ ret' = [op |-> "computeComplianceScore", ethics |-> ethics,
               totalInteractions |-> totalInteractions,
               result |-> ComputeComplianceScore(ethics, totalInteractions)]
    /\ UNCHANGED <<storeVars, progressVars>>

\* SpecCompliance: computeComplianceScore over ethics counts and totals.
NextCompliance ==
    \E ethics \in EthicsMetrics, n \in 0..MaxTotal : ComplianceScoreCall(ethics, n)

SpecCompliance == InitFigures /\ [][NextCompliance]_vars

-----------------------------------------------------------------------------
(* AdaptiveEngine: suggestDepthProgression, generateTeachingPlan *)

Trends == {"improving", "stable", "declining"}

\* The mastery levels at and next to the thresholds 70, 85 and 90
PlanMasteryLevels == {0, 69, 70, 84, 85, 89, 90, 100}

\* The fields of a TopicProgress that the suggestion reads
PlanTopic(topic) ==
    [topic : {topic}, masteryLevel : PlanMasteryLevels, depthProgress : DepthLevels,
     confidenceTrend : Trends]

\* The second topic of a progress record with two topics
OtherTopics ==
    {[topic |-> "Algebra", masteryLevel |-> 100, depthProgress |-> "Applied",
      confidenceTrend |-> "improving"],
     [topic |-> "Algebra", masteryLevel |-> 90, depthProgress |-> "Mastery",
      confidenceTrend |-> "stable"],
     [topic |-> "Algebra", masteryLevel |-> 0, depthProgress |-> "Core",
      confidenceTrend |-> "declining"]}

\* The progress records given to the engine: no topic, one, or two in either
\* order
PlanProgresses ==
    {<<>>}
        \cup {<<a>> : a \in PlanTopic("Fractions")}
        \cup {<<a, b>> : a \in PlanTopic("Fractions"), b \in OtherTopics}
        \cup {<<b, a>> : a \in PlanTopic("Fractions"), b \in OtherTopics}

\* A suggestion that looks at the mastery level and the trend only
SuggestDepthByMasteryOnly(topic, topics) ==
    LET k == FindTopic(topics, topic) IN
    IF k = 0 THEN "Core"
    ELSE IF topics[k].masteryLevel >= 85 /\ topics[k].confidenceTrend = "improving"
    THEN "Mastery"
    ELSE IF topics[k].masteryLevel >= 70 /\ topics[k].confidenceTrend = "improving"
    THEN "Applied"
    ELSE IF topics[k].masteryLevel >= 90 THEN "MAINTAIN"
    ELSE topics[k].depthProgress

\* suggestDepthProgression(topic, progress), on progress.topics
SuggestDepthProgression(topic, topics) ==
    LET k == FindTopic(topics, topic) IN
    IF k = 0 THEN "Core"
    ELSE IF /\ topics[k].masteryLevel >= 85
            /\ topics[k].depthProgress = "Applied"
            /\ topics[k].confidenceTrend = "improving"
    THEN "Mastery"
    ELSE IF /\ topics[k].masteryLevel >= 70
            /\ topics[k].depthProgress = "Core"
            /\ topics[k].confidenceTrend = "improving"
    THEN "Applied"
    ELSE IF topics[k].masteryLevel >= 90 /\ topics[k].depthProgress = "Mastery"
    THEN "MAINTAIN"
    ELSE topics[k].depthProgress

SuggestDepthProgressionCall(topic, topics) ==
    /\ ret' = [op |-> "suggestDepthProgression", topic |-> topic, topics |-> topics,
               result |-> SuggestDepthProgression(topic, topics)]
    /\ UNCHANGED <<storeVars, progressVars>>

\* generateTeachingPlan(studentId, progress): topic, currentDepth and
\* suggestedDepth of each entry of the plan
GenerateTeachingPlan(topics) ==
    /\ ret' = [op |-> "generateTeachingPlan", topics |-> topics,
               plan |-> [k \in 1..Len(topics) |->
                   LET depthSuggestion == SuggestDepthProgression(topics[k].topic, topics)
                   IN  [topic |-> topics[k].topic,
                        currentDepth |-> topics[k].depthProgress,
                        suggestedDepth |-> IF depthSuggestion = "MAINTAIN"
                                           THEN topics[k].depthProgress
                                           ELSE depthSuggestion]]]
    /\ UNCHANGED <<storeVars, progressVars>>

\* SpecSuggest: the engine is asked for depth suggestions and teaching plans.
NextSuggest ==
    \/ \E topic \in Topics, topics \in PlanProgresses :
          SuggestDepthProgressionCall(topic, topics)
    \/ \E topics \in PlanProgresses : GenerateTeachingPlan(topics)

SpecSuggest == InitFigures /\ [][NextSuggest]_vars

-----------------------------------------------------------------------------
(* Claims about the event log and the cache *)

Resolved(i) == recs[i].pc = "resolved" /\ recs[i].accepted

Dropped(i) == recs[i].pc = "resolved" /\ ~recs[i].accepted

Unsettled == {k \in 1..Len(writeChain) : ~Settled(writeChain[k])}

InFlight == {k \in 1..Len(writeChain) : writeChain[k].status = "running"}

NoPurgeDropped == \A p \in 1..Len(purges) : ~purges[p].dropped

Quiet ==
    /\ initialized = "done"
    /\ \A i \in 1..Len(recs) : recs[i].pc = "resolved"
    /\ \A p \in 1..Len(purges) : purges[p].pc = "resolved"

\* C1: once record(event) has resolved, no dashboard read returns a cached
\* response that was computed from an event set without that event.
C1_NoStaleCachedResponse ==
    (ret.op = "dashboard" /\ ret.cached) =>
        \A i \in 1..Len(recs) : Resolved(i) => i \in ret.data.basis

\* C2: when every record and purgeOld call has completed and no file
\* operation has failed, the file holds the events of the index: no indexed
\* event is missing from the file.
C2_NoIndexedEventLostFromFile ==
    (Quiet /\ ~ioFailed) =>
        \A j \in 1..Len(events) :
            \E l \in 1..Len(file) : file[l] = JsonStringify(events[j])

\* C3: at most one append is in flight; appends are issued in the order of
\* the pushes; with no failed append (and no purge having replaced the
\* index) the lines of the file are the pushed events in index order, the
\* appends not yet finished being the last ones of the index.
C3_AppendsSerializedInPushOrder ==
    /\ Cardinality(InFlight) <= 1
    /\ \A k \in 1..Len(writeChain) :
          writeChain[k].status # "waiting" =>
              \A j \in 1..(k - 1) : Settled(writeChain[j])
    /\ (initialized = "done" /\ ~ioFailed /\ NoPurgeDropped) =>
          /\ Len(events) >= Cardinality(Unsettled)
          /\ file = FileContent(SubSeq(events, 1, Len(events) - Cardinality(Unsettled)))
          /\ \A k \in 1..Len(writeChain) :
                events[Len(events) - Len(writeChain) + k] = writeChain[k].event

C3_Witness ==
    /\ Len(writeChain) >= 2
    /\ writeChain[1].status = "done"
    /\ writeChain[2].status = "running"
    /\ ~ioFailed
    /\ Len(file) >= 1

\* C9: query returns exactly the indexed events whose kind passes the filter
\* and whose timestamp t has from <= t <= to, in index order, each once.
C9_QueryReturnsExactlyTheRange ==
    ret.op = "query" =>
        LET r == ret.result
            Match(e) ==
                /\ ret.opts.given => e.kind \in ret.opts.kinds
                /\ ret.from <= DateGetTime(e.timestamp)
                /\ DateGetTime(e.timestamp) <= ret.to
            hits == {j \in 1..Len(events) : Match(events[j])}
        IN  /\ Len(r) = Cardinality(hits)
            /\ \A j \in hits : \E i \in 1..Len(r) : r[i] = events[j]
            /\ \A i \in 1..Len(r) : \E j \in hits : r[i] = events[j]
            /\ \A i, j \in 1..Len(r) : i < j => r[i].id # r[j].id

\* Both bounds are hit by a returned event, the index is not in timestamp
\* order, and one indexed event is left out.
C9_Witness ==
    /\ ret.op = "query"
    /\ Len(events) = 2
    /\ DateGetTime(events[1].timestamp) > DateGetTime(events[2].timestamp)
    /\ ret.from = DateGetTime(events[2].timestamp)
    /\ ret.to = ret.from
    /\ Len(ret.result) = 1

\* The timestamp does not parse, or is older than the retention window
Rejectable(event, clock) ==
    \/ event.timestamp \notin DayStamps
    \/ DateGetTime(event.timestamp) < clock - RetentionDays * DayMs

-----------------------------------------------------------------------------
(* Claims about the learning progress *)

DepthRank(d) == CASE d = "Core" -> 1 [] d = "Applied" -> 2 [] d = "Mastery" -> 3

\* The topics getStudentProgress(s) returns, none for an unknown student
TopicsIn(this, s) ==
    IF GetStudentProgress(this, s) = Null THEN <<>>
    ELSE GetStudentProgress(this, s).topics

TopicsOf(s) == TopicsIn(ThisStore, s)

\* The ProgressStore after the step
StoreAfter == [students |-> students', events |-> pEvents']

\* The progress of `topic` among `topics`, a new one when absent
TopicIn(topics, topic) ==
    IF FindTopic(topics, topic) = 0 THEN NewTopicProgress(topic, 0)
    ELSE topics[FindTopic(topics, topic)]

AllTopics == Topics \cup {"Geometry"}

\* The step adds an event of student s
Adds(s) == Len(EventsIn(StoreAfter, s)) = Len(EventsOf(s)) + 1

\* The event of student s the step adds
AddedEvent(s) == EventsIn(StoreAfter, s)[Len(EventsIn(StoreAfter, s))]

\* C4: in every topic's progress depthProgress, in the order Core < Applied <
\* Mastery, never decreases from one recorded event to the next.
C4_DepthProgressNeverDecreases ==
    [][\A s \in Students, t \in AllTopics :
          DepthRank(TopicIn(TopicsIn(StoreAfter, s), t).depthProgress)
              >= DepthRank(TopicIn(TopicsOf(s), t).depthProgress)]_vars

\* C5: once depthProgress is Applied or Mastery, a success at the same or a
\* higher depth, and any failure, never lowers depthProgress.
C5_DepthKeptByFailureAndHigherSuccess ==
    [][\A s \in Students :
          Adds(s) =>
              LET e == AddedEvent(s)
                  before == TopicIn(TopicsOf(s), e.topic).depthProgress
                  after == TopicIn(TopicsIn(StoreAfter, s), e.topic).depthProgress
              IN  (/\ before \in {"Applied", "Mastery"}
                   /\ (~e.success \/ DepthRank(e.depth) >= DepthRank(before)))
                  => DepthRank(after) >= DepthRank(before)]_vars

\* A topic at Mastery has just taken a failed attempt and stays at Mastery.
C5_Witness ==
    /\ ret.op = "addEvent"
    /\ \E s \in Students :
          /\ EventsOf(s) # <<>>
          /\ LET e == EventsOf(s)[Len(EventsOf(s))] IN
             /\ ~e.success
             /\ e.timestamp = TotalEvents
             /\ TopicIn(TopicsOf(s), e.topic).depthProgress = "Mastery"

\* C6: every topic's masteryLevel and every masteryHistory entry lies in
\* 0..100; a success never decreases masteryLevel and a failure never
\* increases it.
C6_MasteryBoundedAndMonotone ==
    /\ [](\A s \in Students :
            \A k \in 1..Len(TopicsOf(s)) :
                /\ TopicsOf(s)[k].masteryLevel \in 0..100
                /\ \A h \in 1..Len(TopicsOf(s)[k].masteryHistory) :
                      TopicsOf(s)[k].masteryHistory[h] \in 0..100)
    /\ [][\A s \in Students :
            Adds(s) =>
                LET e == AddedEvent(s)
                    before == TopicIn(TopicsOf(s), e.topic).masteryLevel
                    after == TopicIn(TopicsIn(StoreAfter, s), e.topic).masteryLevel
                IN  IF e.success THEN after >= before ELSE after <= before]_vars

\* A success at level 100 has left the level at 100, and a failure at level 0
\* has left another topic at 0.
C6_Witness ==
    /\ ret.op = "addEvent"
    /\ \E s \in Students :
          \E k \in 1..Len(TopicsOf(s)) :
              LET h == TopicsOf(s)[k].masteryHistory IN
              /\ Len(h) >= 2
              /\ h[Len(h)] = 100
              /\ h[Len(h) - 1] = 100
    /\ \E s \in Students :
          \E k \in 1..Len(TopicsOf(s)) :
              /\ TopicsOf(s)[k].masteryHistory = <<0>>
              /\ TopicsOf(s)[k].attemptCount = 1

\* C7: two getStudentProgress calls for one student with no addEvent in
\* between return equal topics and overallMastery, and a call changes neither
\* the stored events nor what any later call returns.
C7_GetStudentProgressIsPureReplay ==
    /\ [][ret'.op = "getStudentProgress" =>
            /\ pEvents' = pEvents
            /\ \A s \in Students :
                  GetStudentProgress(StoreAfter, s) = GetStudentProgress(ThisStore, s)
            /\ \A s \in Students :
                  ret'.student = s => ret'.result = GetStudentProgress(StoreAfter, s)
            /\ (ret.op = "getStudentProgress" /\ ret.student = ret'.student) =>
                  ret'.result = ret.result]_vars
    /\ []((ret.op = "getStudentProgress" /\ ret.result # Null) =>
            /\ ret.result.topics = RecalculateAllTopics(EventsOf(ret.student))
            /\ ret.result.overallMastery = CalculateOverallMastery(ret.result.topics))

\* A second call in a row has returned the progress of a student with events
\* on two topics.
C7_Witness ==
    /\ ret.op = "getStudentProgress"
    /\ ret.again
    /\ ret.result # Null
    /\ Len(ret.result.topics) = 2
    /\ ret.result.overallMastery > 0

\* C8: the topics getStudentProgress(s) returns are determined by the ordered
\* events of s alone; updateTopicProgress and recordMistakePattern never
\* change what getStudentProgress returns.
C8_ProgressDeterminedByEventsAlone ==
    /\ [][\A s \in Students :
            EventsIn(StoreAfter, s) = EventsOf(s) =>
                GetStudentProgress(StoreAfter, s) = GetStudentProgress(ThisStore, s)]_vars
    /\ [](\A s \in Students :
            TopicsOf(s) = RecalculateAllTopics(EventsOf(s)))

\* getStudentProgress has answered for a student whose stored topics an
\* updateTopicProgress call has changed.
C8_Witness ==
    /\ ret.op = "getStudentProgress"
    /\ ret.result # Null
    /\ updates > 0
    /\ students[ret.student].topics # ret.result.topics
    /\ ret.result.topics # <<>>

-----------------------------------------------------------------------------
(* Claims about invalidation, loading and failed appends *)

\* The step pushes an event to the in-memory index
Pushes == Len(events') = Len(events) + 1

DashboardKeys(store) == {k \in DOMAIN store : Includes(k, DashboardPrefix)}

\* C11: the step of record that adds an accepted event to the index removes
\* every cache entry whose key contains "dashboard:", so no entry stored
\* before the record is present once the index holds the event.
C11_PushInvalidatesDashboardEntries ==
    [][/\ Pushes => DashboardKeys(cache') = {}
       /\ \A i \in 1..Len(recs) :
            (recs[i].pc = "init" /\ recs'[i].pc = "chain") =>
                /\ events' = Append(events, recs[i].event)
                /\ DashboardKeys(cache') = {}]_vars

\* The only dashboard request missed and stored its response; the only push,
\* whose append is still to start, has left the cache empty.
C11_Witness ==
    /\ now = DayMs
    /\ Len(dash) = 1
    /\ dash[1].pc = "resolved"
    /\ Len(events) = 1
    /\ \E i \in 1..Len(recs) :
          /\ recs[i].pc = "chain"
          /\ writeChain[recs[i].task].status = "waiting"
    /\ cache = <<>>

\* The lines of `lines` that parse and whose timestamp is valid and within
\* retention at `clock`, as events in file order
RetainedLines(lines, clock) ==
    LET kept == SelectSeq(lines,
                    LAMBDA l : /\ JsonParses(l)
                               /\ JsonParse(l).timestamp \in DayStamps
                               /\ DateGetTime(JsonParse(l).timestamp)
                                      >= clock - RetentionDays * DayMs)
    IN  [i \in 1..Len(kept) |-> JsonParse(kept[i])]

\* C12: after the load of a readable file the index is the retained lines in
\* file order, whatever the outcome of the compaction rewrite; a rewrite that
\* succeeds leaves exactly the retained lines in the file.
C12_LoadKeepsRetainedLines ==
    [][/\ (initialized = "loading" /\ initialized' # "loading" /\ ioFailed' = ioFailed)
            => events' = RetainedLines(file, now)
       /\ (initialized \in {"writeTmp", "rename"} /\ initialized' # initialized)
            => /\ events' = events
               /\ file' # file => file' = FileContent(events)]_vars

\* The accepted record calls whose append has failed
AppendFailed == {i \in 1..Len(recs) :
                    recs[i].accepted /\ writeChain[recs[i].task].status = "failed"}

\* C13: when the append of an accepted event fails, record still resolves,
\* the event stays in the index and is returned by query, and the appends of
\* the events recorded afterwards are still attempted in order.
C13_FailedAppendKeepsEventVisible ==
    /\ \A i \in AppendFailed :
          /\ recs[i].pc \in {"chain", "resolved"}
          /\ recs[i].pc = "chain" => ENABLED RecordResolve(i)
          /\ \E j \in 1..Len(events) : events[j] = recs[i].event
          /\ (/\ ret.op = "query"
              /\ ret.opts.given => recs[i].event.kind \in ret.opts.kinds
              /\ ret.from <= DateGetTime(recs[i].event.timestamp)
              /\ DateGetTime(recs[i].event.timestamp) <= ret.to)
                => recs[i].event.id \in Ids(ret.result)
    /\ \A k \in 2..Len(writeChain) :
          (writeChain[k - 1].status = "failed" /\ writeChain[k].status = "waiting")
              => ENABLED AppendStart(k)
    /\ \A k \in 1..Len(writeChain) :
          writeChain[k].status # "waiting" =>
              \A j \in 1..(k - 1) : writeChain[j].status \in {"done", "failed"}

\* The first append failed and its record resolved, the append of the second
\* event followed and succeeded, and a query has returned the first event.
C13_Witness ==
    /\ Len(recs) = 2
    /\ 1 \in AppendFailed
    /\ recs[1].pc = "resolved"
    /\ recs[2].accepted
    /\ writeChain[recs[2].task].status = "done"
    /\ ret.op = "query"
    /\ 1 \in Ids(ret.result)

\* C14: record of an accepted event resolves only after its own append and
\* the append of every event accepted before it have finished, by success or
\* by a logged failure; it never resolves while its append is pending.
C14_ResolvesAfterOwnAndEarlierAppends ==
    \A i \in 1..Len(recs) :
        (recs[i].accepted /\ recs[i].pc = "resolved") =>
            /\ writeChain[recs[i].task].event = recs[i].event
            /\ \A k \in 1..recs[i].task :
                  writeChain[k].status \notin {"waiting", "running"}

\* Two accepted records have resolved: the append of the first failed and
\* the append of the second succeeded after it.
C14_Witness ==
    /\ Len(recs) = 2
    /\ \A i \in 1..2 : recs[i].accepted /\ recs[i].pc = "resolved"
    /\ recs[1].task = 1
    /\ recs[2].task = 2
    /\ writeChain[1].status = "failed"
    /\ writeChain[2].status = "done"

-----------------------------------------------------------------------------
(* Claims about mastery levels, trends and dashboard figures *)

\* The events of student s on topic t
EventsOn(s, t) == SelectSeq(EventsOf(s), LAMBDA e : e.topic = t)

\* Core successes and nothing else
CoreSuccessesOnly(evts) ==
    /\ evts # <<>>
    /\ \A k \in 1..Len(evts) : evts[k].depth = "Core" /\ evts[k].success

\* C15: after n successful Core events and nothing else a topic has
\* masteryLevel min(100, 10 n), attemptCount n and depthProgress Core; every
\* event changes masteryLevel by +10 (Core), +15 (Applied), +25 (Mastery) on
\* success and -5 on failure, clamped to 0..100.
C15_MasteryFollowsDepthDeltas ==
    /\ [](\A s \in Students, t \in Topics :
            CoreSuccessesOnly(EventsOn(s, t)) =>
                LET n == Len(EventsOn(s, t))
                    tp == TopicIn(TopicsOf(s), t)
                IN  /\ tp.masteryLevel = IF 10 * n < 100 THEN 10 * n ELSE 100
                    /\ tp.attemptCount = n
                    /\ tp.depthProgress = "Core")
    /\ [](\A d \in DepthLevels :
            /\ CalculateMasteryDelta(d, FALSE) = 0 - 5
            /\ CalculateMasteryDelta(d, TRUE) =
                 (IF d = "Core" THEN 10 ELSE IF d = "Applied" THEN 15 ELSE 25))
    /\ [][\A s \in Students :
            Adds(s) =>
                LET e == AddedEvent(s)
                    before == TopicIn(TopicsOf(s), e.topic).masteryLevel
                    after == TopicIn(TopicsIn(StoreAfter, s), e.topic).masteryLevel
                    moved == before + CalculateMasteryDelta(e.depth, e.success)
                IN  after = IF moved > 100 THEN 100 ELSE IF moved < 0 THEN 0 ELSE moved]_vars

\* getStudentProgress has returned 30, 3 and Core for a topic with three Core
\* successes.
C15_Witness ==
    /\ ret.op = "getStudentProgress"
    /\ ret.student = "s1"
    /\ Len(EventsOn("s1", "Fractions")) = 3
    /\ CoreSuccessesOnly(EventsOn("s1", "Fractions"))
    /\ ret.result # Null
    /\ LET tp == TopicIn(ret.result.topics, "Fractions") IN
       /\ tp.masteryLevel = 30
       /\ tp.attemptCount = 3
       /\ tp.depthProgress = "Core"
       /\ tp.masteryHistory = <<10, 20, 30>>

\* C16: with at least one interaction the Core, Applied and Mastery
\* components of the normalized depth distribution, each rounded to three
\* decimals, sum to exactly 1 (1000 thousandths); with none all three are 0.
C16_DepthDistributionSumsToOne ==
    ret.op = "aggregateTeacherMetrics" =>
        LET d == ret.depthDistribution
            sum == d["Core"] + d["Applied"] + d["Mastery"]
        IN  IF ret.totalInteractions > 0 THEN sum = 1000 ELSE sum = 0

\* C17: computeComplianceScore(ethics, n) is
\* round(100 - min(100, 200 (2 cheating + 3 privacy + enforcements +
\* modifications) / max(1, n))), always in 0..100; cheating 2, privacy 1,
\* nothing else and n = 10 give 0.
C17_ComplianceScoreFormula ==
    ret.op = "computeComplianceScore" =>
        LET e == ret.ethics
            n == IF ret.totalInteractions > 1 THEN ret.totalInteractions ELSE 1
            weighted == 2 * e.cheatingDetected + 3 * e.privacyAlerts
                            + e.assignmentEnforcements + e.promptModifications
            \* (100 - min(100, 200 weighted / n)) * n
            scaled == IF 200 * weighted > 100 * n THEN 0 ELSE 100 * n - 200 * weighted
        IN  /\ ret.result \in 0..100
            /\ 2 * (ret.result * n - scaled) <= n
            /\ 2 * (scaled - ret.result * n) <= n
            /\ (/\ e = [cheatingDetected |-> 2, privacyAlerts |-> 1,
                        assignmentEnforcements |-> 0, promptModifications |-> 0]
                /\ ret.totalInteractions = 10) => ret.result = 0

\* The call with cheating 2, privacy 1 and 10 interactions has returned 0.
C17_Witness ==
    /\ ret.op = "computeComplianceScore"
    /\ ret.ethics = [cheatingDetected |-> 2, privacyAlerts |-> 1,
                     assignmentEnforcements |-> 0, promptModifications |-> 0]
    /\ ret.totalInteractions = 10
    /\ ret.result = 0

-----------------------------------------------------------------------------
(* Claims about insights *)

\* generateInsights(s) has returned insights
InsightsOf(s) ==
    /\ ret.op = "generateInsights"
    /\ ret.student = s
    /\ ret.result # Null

\* The topics no topic exceeds in mastery
TopTopics(topics) ==
    {k \in 1..Len(topics) :
        /\ topics[k].masteryLevel > 0
        /\ \A j \in 1..Len(topics) : topics[j].masteryLevel <= topics[k].masteryLevel}

\* The signal the precedence gives once INCREASE_DEPTH is ruled out
SignalBelowIncrease(p, trend) ==
    IF p.overallMastery >= 50 /\ p.overallMastery < 85 /\ trend # "declining"
    THEN "MAINTAIN_LEVEL"
    ELSE IF p.overallMastery < 50 \/ trend = "declining"
    THEN "REDUCE_COMPLEXITY"
    ELSE IF \E k \in 1..Len(p.topics) :
               ErrorCount(p.topics[k]) >= 3 /\ p.topics[k].attemptCount < 5
    THEN "PRACTICE_MORE"
    ELSE IF \E k \in 1..Len(p.topics) :
               p.topics[k].depthProgress = "Core" /\ p.topics[k].masteryLevel >= 80
    THEN "READY_FOR_MASTERY"
    ELSE "MAINTAIN_LEVEL"

\* C18: the adaptiveSignal of generateInsights follows the precedence
\* INCREASE_DEPTH (overall mastery at least 85 and the highest-mastery topic
\* improving), MAINTAIN_LEVEL (overall in [50,85) and the trend not declining),
\* REDUCE_COMPLEXITY (overall below 50 or the trend declining), PRACTICE_MORE
\* (a topic with at least 3 errors and fewer than 5 attempts),
\* READY_FOR_MASTERY (a Core topic with mastery at least 80), MAINTAIN_LEVEL.
\* Where several topics share the highest mastery, any of them may count as
\* the highest.
C18_AdaptiveSignalPrecedence ==
    \A s \in Students :
        InsightsOf(s) =>
            LET p == GetStudentProgress(ThisStore, s)
                signal == ret.result.adaptiveSignal
                below == SignalBelowIncrease(p, ret.result.masteryTrend)
                tops == TopTopics(p.topics)
                improving == {k \in tops : p.topics[k].confidenceTrend = "improving"}
            IN  /\ signal \in {"INCREASE_DEPTH", below}
                /\ (p.overallMastery >= 85 /\ tops # {} /\ improving = tops)
                      => signal = "INCREASE_DEPTH"
                /\ (p.overallMastery < 85 \/ improving = {}) => signal = below

\* PRACTICE_MORE is returned although a Core topic is ready for mastery
C18_Witness ==
    /\ InsightsOf("s1")
    /\ ret.result.adaptiveSignal = "PRACTICE_MORE"
    /\ LET p == GetStudentProgress(ThisStore, "s1") IN
       \E k \in 1..Len(p.topics) :
           p.topics[k].depthProgress = "Core" /\ p.topics[k].masteryLevel >= 80

RECURSIVE SumAt(_, _)
\* The sum of the entries of `h` at the indices `I`
SumAt(h, I) ==
    IF I = {} THEN 0
    ELSE LET k == CHOOSE x \in I : TRUE IN h[k] + SumAt(h, I \ {k})

\* The trend the windows of a history give: the last 5 entries against the
\* up to 5 entries before them
TrendOfWindows(h) ==
    LET n == Len(h)
        last == {k \in 1..n : k > n - 5}
        before == {k \in 1..n : k > n - 10 /\ k <= n - 5}
        \* (mean(last) - mean(before)) * |last| * |before|
        diff == SumAt(h, last) * Cardinality(before) - SumAt(h, before) * Cardinality(last)
        five == 5 * Cardinality(last) * Cardinality(before)
    IN  IF n < 3 \/ before = {} THEN "stable"
        ELSE IF diff > five THEN "improving"
        ELSE IF diff < 0 - five THEN "declining"
        ELSE "stable"

\* C19: the confidenceTrend of every topic returned by getStudentProgress is
\* improving when mean(last 5 entries) - mean(the up to 5 entries before them)
\* exceeds 5, declining when it is below -5, stable otherwise, and stable when
\* there is no entry before the last 5 or the history has fewer than 3 entries.
C19_ConfidenceTrendFromWindows ==
    \A s \in Students :
        (ret.op = "getStudentProgress" /\ ret.student = s /\ ret.result # Null) =>
            \A k \in 1..Len(ret.result.topics) :
                ret.result.topics[k].confidenceTrend
                    = TrendOfWindows(ret.result.topics[k].masteryHistory)

\* A result with an improving topic, a declining topic and a topic of at
\* least 3 entries with none before the last 5
C19_Witness ==
    /\ ret.op = "getStudentProgress"
    /\ ret.result # Null
    /\ \E i, j, k \in 1..Len(ret.result.topics) :
          /\ ret.result.topics[i].confidenceTrend = "improving"
          /\ ret.result.topics[j].confidenceTrend = "declining"
          /\ Len(ret.result.topics[k].masteryHistory) \in 3..5
          /\ ret.result.topics[k].confidenceTrend = "stable"

\* C20: the masteryTrend of generateInsights is "steady" unless more than
\* half of the topics with at least 3 history points changed by more than 10
\* in one direction and the average change is beyond 8 in that direction.
C20_SteadyUnlessBothThresholds ==
    \A s \in Students :
        InsightsOf(s) =>
            LET topics == GetStudentProgress(ThisStore, s).topics
                eligible == {k \in 1..Len(topics) : Len(topics[k].masteryHistory) >= 3}
                n == Cardinality(eligible)
                up == {k \in eligible : TopicChange60(topics[k]) > 600}
                down == {k \in eligible : TopicChange60(topics[k]) < 0 - 600}
                total60 == Sum([k \in 1..Len(topics) |->
                                  IF k \in eligible THEN TopicChange60(topics[k]) ELSE 0])
                bothUp == 2 * Cardinality(up) > n /\ total60 > 8 * 60 * n
                bothDown == 2 * Cardinality(down) > n /\ total60 < 0 - 8 * 60 * n
            IN  ~(bothUp \/ bothDown) => ret.result.masteryTrend = "steady"

-----------------------------------------------------------------------------
(* Claims about the cache *)

\* C21: a cached response served to a dashboard request was built for a
\* request of the same endpoint, the same period and the same role.
C21_CachedResponseOfSameEndpointPeriodRole ==
    (ret.op = "dashboard" /\ ret.status = 200 /\ ret.cached) =>
        /\ ret.data.builtFor.endpoint = ret.request.endpoint
        /\ ret.data.builtFor.period = ret.request.period
        /\ ret.data.builtFor.role = ret.request.role

\* The set calls on `key` among the first n calls
SetsOf(key, n) ==
    {i \in 1..n : cacheCalls[i].op = "set" /\ cacheCalls[i].key = key}

\* The call at i removes the entry of `key`
Removes(i, key) ==
    \/ cacheCalls[i].op = "clear"
    \/ cacheCalls[i].op = "invalidate" /\ Includes(key, cacheCalls[i].pattern)

\* What a read of `key` returns after the first n calls, at time `clock`,
\* going by the calls alone
ValueByCalls(key, n, clock) ==
    LET sets == SetsOf(key, n) IN
    IF sets = {} THEN Null
    ELSE LET latest == CHOOSE i \in sets : \A j \in sets : j <= i
             set == cacheCalls[latest]
         IN  IF \E i \in (latest + 1)..n : Removes(i, key) THEN Null
             ELSE IF clock > set.at + Max(0, set.ttlMs) THEN Null
             ELSE set.value

\* C22: getCachedMetrics(k) returns the value of the latest
\* setCachedMetrics(k, v, ttl) when no later invalidateCache had a pattern
\* contained in k, no later clearAllCache was called, and the time is not past
\* set-time + max(0, ttl); otherwise it returns null.  After a read that
\* returned null the cache holds no entry for k.
C22_ReadReturnsLiveLatestSet ==
    ret.op = "getCachedMetrics" =>
        /\ ret.result = ValueByCalls(ret.key, Len(cacheCalls) - 1, now)
        /\ ret.result = Null => ret.key \notin DOMAIN cache

\* A read at the very deadline of an entry has returned its value, after an
\* earlier entry of the key was invalidated
C22_Witness ==
    /\ ret.op = "getCachedMetrics"
    /\ ret.result # Null
    /\ Len(cacheCalls) = 4
    /\ cacheCalls[1].op = "set"
    /\ cacheCalls[1].key = ret.key
    /\ cacheCalls[2].op = "invalidate"
    /\ Includes(ret.key, cacheCalls[2].pattern)
    /\ cacheCalls[3].op = "set"
    /\ cacheCalls[3].value # cacheCalls[1].value
    /\ now = cacheCalls[3].at + Max(0, cacheCalls[3].ttlMs)

-----------------------------------------------------------------------------
(* Claims about purgeOld and reads during writes *)

\* The positions of the indexed events inside the retention window
WithinRetentionAt(evts, clock) ==
    {i \in 1..Len(evts) :
        LET ms == DateGetTime(evts[i].timestamp) IN
        ms # NaN /\ ms >= clock - RetentionDays * DayMs}

\* `kept` is `evts` restricted to the positions `at`, in the order of `evts`
IsRestriction(kept, evts, at) ==
    /\ Len(kept) = Cardinality(at)
    /\ \A i \in at : kept[Cardinality({j \in at : j <= i})] = evts[i]

\* The purgeOld call p resumes after its await of ensureInitialized
PurgeResumes(p) == purges[p].pc = "init" /\ purges'[p].pc # "init"

\* C23: purgeOld leaves index and file unchanged, and returns, when every
\* indexed event is within retention; otherwise the index becomes the
\* in-retention events in their previous order.  No step of purgeOld changes
\* the file except the rename, which installs the complete lines of the
\* events a purgeOld kept: the file never holds a partly written content.
C23_PurgeKeepsRetainedAndReplacesFileWhole ==
    [][\A p \in 1..Len(purges) :
          /\ PurgeResumes(p) =>
                LET at == WithinRetentionAt(events, now) IN
                /\ file' = file
                /\ IF at = 1..Len(events)
                   THEN events' = events /\ tmp' = tmp /\ purges'[p].pc = "resolved"
                   ELSE IsRestriction(events', events, at)
          /\ (purges'[p] # purges[p] /\ file' # file) =>
                /\ purges[p].pc = "rename"
                /\ \E q \in 1..Len(purges) :
                      purges[q].dropped /\ file' = FileContent(purges[q].kept)]_vars

\* The record calls that have pushed their event
Pushed == {i \in 1..Len(recs) : recs[i].accepted}

\* The append of the event of record call i is queued or in flight
AppendPending(i) == writeChain[recs[i].task].status \in {"waiting", "running"}

\* The query that returned `r` covers the event e
Covers(r, e) ==
    /\ r.opts.given => e.kind \in r.opts.kinds
    /\ r.from <= DateGetTime(e.timestamp)
    /\ DateGetTime(e.timestamp) <= r.to

\* C24: every query that returns contains each pushed event it covers,
\* whether the append of that event is queued, in flight or finished; and a
\* query that is next to resume returns at once, whatever the state of the
\* write queue.
C24_QueryReturnsPushedEventsWithoutWaiting ==
    /\ ret.op = "query" =>
          \A i \in Pushed :
              Covers(ret, recs[i].event) => recs[i].event.id \in Ids(ret.result)
    /\ (initialized = "done" /\ waiters # <<>> /\ Head(waiters).op = "query")
          => ENABLED QueryReturn

\* A query has returned an event whose append has not finished
C24_Witness ==
    /\ ret.op = "query"
    /\ \E i \in Pushed :
          AppendPending(i) /\ recs[i].event.id \in Ids(ret.result)

-----------------------------------------------------------------------------
(* Claims about the adaptive engine and the progress tracker *)

\* The topic may advance one level
MayAdvance(tp) ==
    \/ tp.depthProgress = "Applied" /\ tp.masteryLevel >= 85
          /\ tp.confidenceTrend = "improving"
    \/ tp.depthProgress = "Core" /\ tp.masteryLevel >= 70
          /\ tp.confidenceTrend = "improving"

\* C25: suggestDepthProgression returns Core for an unknown topic; for a known
\* topic it returns MAINTAIN exactly for a Mastery topic with mastery >= 90,
\* the next level exactly for an Applied topic with mastery >= 85 or a Core
\* topic with mastery >= 70 whose trend is improving, and the current
\* depthProgress otherwise: never a lower level, never two levels up.  The
\* suggestedDepth of a teaching plan is the current depth or the next one.
C25_SuggestionNeverLowerNeverSkips ==
    /\ ret.op = "suggestDepthProgression" =>
          LET k == FindTopic(ret.topics, ret.topic) IN
          IF k = 0 THEN ret.result = "Core"
          ELSE LET tp == ret.topics[k]
                   cur == DepthRank(tp.depthProgress)
               IN  /\ ret.result = "MAINTAIN" <=>
                          (tp.depthProgress = "Mastery" /\ tp.masteryLevel >= 90)
                   /\ ret.result # "MAINTAIN" =>
                          /\ DepthRank(ret.result) \in {cur, cur + 1}
                          /\ DepthRank(ret.result) = cur + 1 <=> MayAdvance(tp)
    /\ ret.op = "generateTeachingPlan" =>
          \A k \in 1..Len(ret.plan) :
              LET cur == DepthRank(ret.plan[k].currentDepth) IN
              /\ DepthRank(ret.plan[k].suggestedDepth) \in {cur, cur + 1}
              /\ DepthRank(ret.plan[k].suggestedDepth) = cur + 1
                    <=> MayAdvance(ret.topics[k])

\* A Core topic with mastery 100 and improving trend was suggested Applied,
\* not Mastery
C25_Witness ==
    /\ ret.op = "suggestDepthProgression"
    /\ LET k == FindTopic(ret.topics, ret.topic) IN
       /\ k # 0
       /\ ret.topics[k].depthProgress = "Core"
       /\ ret.topics[k].masteryLevel = 100
       /\ ret.topics[k].confidenceTrend = "improving"
       /\ ret.result = "Applied"

\* C26: the label recalculateConfidenceTrend returns for a topic the student
\* has attempted is the confidenceTrend of that topic in getStudentProgress.
C26_TrackerTrendEqualsStoreTrend ==
    ret.op = "recalculateConfidenceTrend" =>
        LET topics == TopicsOf(ret.student)
            k == FindTopic(topics, ret.topic)
        IN  k # 0 => ret.result = topics[k].confidenceTrend

\* C27: generateInsights returns PRACTICE_MORE or READY_FOR_MASTERY only when
\* the overall mastery is at least 85, a topic of highest mastery is not
\* improving and the mastery trend is not declining; below an overall mastery
\* of 85 the signal is MAINTAIN_LEVEL or REDUCE_COMPLEXITY.
C27_PracticeAndReadyOnlyAtHighMastery ==
    \A s \in Students :
        InsightsOf(s) =>
            LET p == GetStudentProgress(ThisStore, s)
                signal == ret.result.adaptiveSignal
                tops == TopTopics(p.topics)
            IN  /\ signal \in {"PRACTICE_MORE", "READY_FOR_MASTERY"} =>
                      /\ p.overallMastery >= 85
                      /\ ret.result.masteryTrend # "declining"
                      /\ \E k \in tops : p.topics[k].confidenceTrend # "improving"
                /\ p.overallMastery < 85 =>
                      signal \in {"MAINTAIN_LEVEL", "REDUCE_COMPLEXITY"}

\* READY_FOR_MASTERY is returned for a student with overall mastery >= 85
C27_Witness ==
    /\ InsightsOf("s1")
    /\ ret.result.adaptiveSignal = "READY_FOR_MASTERY"
    /\ GetStudentProgress(ThisStore, "s1").overallMastery >= 85

-----------------------------------------------------------------------------
(* Claims about the load and the progress tracker's validation *)

\* How far the load of ensureInitialized has come
LoadRank(phase) ==
    CASE phase = "null" -> 0
      [] phase = "loading" -> 1
      [] phase = "writeTmp" -> 2
      [] phase = "rename" -> 3
      [] phase = "done" -> 4

\* The operations whose calls are waiting for ensureInitialized
WaitingOps == {waiters[k].op : k \in 1..Len(waiters)}

\* C28: the load is started by the first call and never started again: its
\* phase only advances, so the file is read once and compacted at most once.
\* Until the load has finished no record, query, purgeOld or isWritable call
\* resumes or returns, no append is queued, and the index is changed by the
\* load alone.
C28_LoadedOnceBeforeAnyCallerActs ==
    [][/\ LoadRank(initialized') >= LoadRank(initialized)
       /\ waiters' # <<>> => initialized' # "null"
       /\ initialized # "done" =>
             /\ SubSeq(recs', 1, Len(recs)) = recs
             /\ SubSeq(purges', 1, Len(purges)) = purges
             /\ SubSeq(waiters', 1, Len(waiters)) = waiters
             /\ writeChain' = writeChain
             /\ ret'.op \notin {"record", "query", "purgeOld", "isWritable"}
             /\ events' # events => initialized' # initialized]_vars

\* The load has filled the index and is compacting the file while a record, a
\* query, a purgeOld and an isWritable call wait for it
C28_Witness ==
    /\ initialized = "rename"
    /\ events # <<>>
    /\ WaitingOps = {"record", "query", "purgeOld", "isWritable"}

\* The event has a non-empty string as student and as topic, a depth and a
\* task type of the lists, a reasoning quality in [0, 1], a boolean success,
\* an array of mistakes, a time spent >= 0 and a timestamp
WellFormed(event) ==
    /\ event.studentId.type = "string" /\ event.studentId.str # ""
    /\ event.topic.type = "string" /\ event.topic.str # ""
    /\ event.depth \in {JsString(d) : d \in DepthLevels}
    /\ event.taskType \in {JsString("Learning"), JsString("Assignment")}
    /\ event.reasoningQuality.type = "number"
    /\ event.reasoningQuality.num \in 0..10
    /\ event.success.type = "boolean"
    /\ event.mistakePatterns.type = "array"
    /\ event.timeSpent.type = "number" /\ event.timeSpent.num >= 0
    /\ event.timestamp \notin {Undefined, JsString("")}

\* What the caller said of the event, without its timestamp
Said(event) ==
    [studentId |-> event.studentId.str, topic |-> event.topic.str,
     depth |-> event.depth.str, success |-> event.success.bool,
     reasoningQuality |-> event.reasoningQuality.num,
     mistakePatterns |-> event.mistakePatterns.arr]

\* What the store keeps of its events of student s, without their timestamps
Kept(evtsOf, s) ==
    IF s \notin DOMAIN evtsOf THEN <<>>
    ELSE [k \in 1..Len(evtsOf[s]) |->
            [f \in (DOMAIN evtsOf[s][k]) \ {"timestamp"} |-> evtsOf[s][k][f]]]

\* The first n events of a batch that are of student s, as the caller said
\* them
SaidOf(evts, n, s) ==
    LET mine == SelectSeq(SubSeq(evts, 1, n), LAMBDA e : e.studentId = JsString(s))
    IN  [k \in 1..Len(mine) |-> Said(mine[k])]

\* C29: recordInteraction of an event that is not well-formed throws and
\* leaves the events and the students of the store as they were.
\* batchRecordInteractions throws exactly when an event of the batch is not
\* well-formed; the store then holds, after the events it held, the events of
\* the batch before the first such event, in their order, and no later one.
C29_InvalidEventThrowsAndBatchStopsThere ==
    [][/\ (ret'.op = "recordInteraction" /\ ~WellFormed(ret'.event)) =>
             /\ ret'.threw
             /\ pEvents' = pEvents
             /\ students' = students
       /\ ret'.op = "batchRecordInteractions" =>
             LET evts == ret'.events
                 bad == {k \in 1..Len(evts) : ~WellFormed(evts[k])}
                 n == IF bad = {} THEN Len(evts)
                      ELSE (CHOOSE k \in bad : \A j \in bad : k <= j) - 1
             IN  /\ ret'.threw <=> bad # {}
                 /\ ret'.recorded = n
                 /\ DOMAIN pEvents' \subseteq Students
                 /\ \A s \in Students :
                       Kept(pEvents', s) = Kept(pEvents, s) \o SaidOf(evts, n, s)]_vars

\* A batch of three events threw at its second event: one event is recorded
\* and the well-formed third is not
C29_Witness ==
    /\ ret.op = "batchRecordInteractions"
    /\ Len(ret.events) = 3
    /\ WellFormed(ret.events[1])
    /\ ~WellFormed(ret.events[2])
    /\ WellFormed(ret.events[3])
    /\ ret.threw
    /\ ret.recorded = 1
    /\ TotalEvents >= 1

-----------------------------------------------------------------------------
(* Claims about the incremental topic state *)

\* The fields of a topic that addEvent keeps up to date
Incremental(tp) ==
    [topic |-> tp.topic, masteryLevel |-> tp.masteryLevel,
     attemptCount |-> tp.attemptCount, depthAttempts |-> tp.depthAttempts,
     depthProgress |-> tp.depthProgress, masteryHistory |-> tp.masteryHistory,
     errorFrequency |-> tp.errorFrequency, confidenceTrend |-> tp.confidenceTrend]

\* C30: while addEvent is the only call that changes the store, the topics
\* kept in the students map agree, topic by topic and in the same order, with
\* the topics recalculateAllTopics computes from the events of the student,
\* in masteryLevel, attemptCount, depthAttempts, depthProgress,
\* masteryHistory, errorFrequency and confidenceTrend.
C30_IncrementalStateEqualsRecalculation ==
    /\ DOMAIN students = DOMAIN pEvents
    /\ \A s \in DOMAIN students :
          LET kept == students[s].topics
              recalculated == RecalculateAllTopics(pEvents[s])
          IN  /\ Len(kept) = Len(recalculated)
              /\ \A k \in 1..Len(kept) :
                    Incremental(kept[k]) = Incremental(recalculated[k])

\* After ten events or more, two of them added by callers, a kept topic has an
\* improving trend, and a student has two topics
C30_Witness ==
    /\ Added = MaxEvents
    /\ TotalEvents >= 10
    /\ \E s \in DOMAIN students :
          /\ Len(students[s].topics) = 2
          /\ \E k \in 1..2 : students[s].topics[k].confidenceTrend = "improving"
====
